---- MODULE Spec2Model ----
(***************************************************************************)
(* Marketplace protocol, action log and proposal/payment bookkeeping of    *)
(* magentic_marketplace.                                                   *)
(*                                                                         *)
(* The specifications share the state:                                     *)
(*   Spec           the customer and business agents of marketplace/agents *)
(*                  running against the server;                            *)
(*   SpecLedger     one customer and one business over a longer log;       *)
(*   SpecProtocol   the server alone, driven by arbitrary requests of      *)
(*                  registered agents (the input space of the protocol);   *)
(*   SpecLifecycle  the agent run loop and the launcher;                   *)
(*   SpecAnalytics  MarketplaceAnalytics replaying a logged run;           *)
(*   SpecProposals  the proposal checks of MarketplaceAnalytics on single  *)
(*                  proposals;                                             *)
(*   SpecConverter  DatabaseConverter.convert on a finished experiment;    *)
(*   SpecVerify     DatabaseConverter._verify_table on pairs of row lists; *)
(*   SpecAudit      MarketplaceAudit.audit_proposals on a logged run;      *)
(*   SpecPayments   one customer and one business whose proposals may have *)
(*                  expired;                                               *)
(*   SpecPayers     the same with a second registered agent that pays and  *)
(*                  with sends of the business that fail;                  *)
(*   SpecShutdown   a launcher run without failure in which a customer     *)
(*                  shops and pays; SpecShutdownFair adds the fairness of  *)
(*                  the event loop;                                        *)
(*   SpecDecision   the decision calls of a customer, which may fail;      *)
(*   SpecFailure    a launcher run in which an agent may fail, with the    *)
(*                  fairness of the event loop;                            *)
(*   SpecLogger     MarketplaceLogger: log calls, their writes and flush;  *)
(*   SpecLlmLogs    the log writes of the decision calls of a customer;    *)
(*   SpecExport     the export at the end of an experiment, with log       *)
(*                  writes still pending;                                  *)
(*   SpecEngines    MarketplaceAnalytics and MarketplaceAudit on one log;  *)
(*   SpecGenerate   the retry loops of structured generation in the LLM    *)
(*                  clients;                                               *)
(*   SpecStart      MarketplaceLauncher.start_server waiting for the       *)
(*                  server.                                                *)
(***************************************************************************)
EXTENDS Integers, Sequences, FiniteSets, TLC

\* ---------------------------------------------------------------- bounds
MaxActions == 5
MaxLedgerActions == 11
MaxProtoActions == 3
MaxFetches == 2
MaxLifeActions == 3
MaxStepBudget == 2
MaxPayActions == 8
MaxPayerActions == 6
MaxShutdownActions == 5
MaxLogCalls == 3
MaxDecisionCalls == 2

\* ------------------------------------------------------------ identities
Businesses == {"b1"}
Customers == {"c1", "c2"}
RegisteredAgents == Businesses \cup Customers
UnknownAgentId == "zz"
ProposalIds == {"p1", "p2"}
NoId == "none"
NoIndex == 0
NoBudget == -1
NoExpiry == "none"

\* In the audit, proposal ids and log texts are strings, held as sequences
\* of characters.
pid1 == <<"p", "1">>
pid2 == <<"p", "2">>
AuditProposalIds == {pid1, pid2}
NoMetadata == [business_id |-> NoId, customer_id |-> NoId]

\* ------------------------------------------------------------- variables
VARIABLES
  actions,                \* the actions table: rows in commit order
  proposal_storage,       \* agent -> proposal id -> stored proposal
  confirmed_orders,       \* business -> proposal ids it confirmed
  completed_transactions, \* customer -> proposal ids it paid
  seen_message_indexes,   \* agent -> indexes already returned as new
  last_fetch_index,       \* agent -> largest index returned so far
  inbox,                  \* business -> messages of the running step
  outbox,                 \* business -> customer -> messages_to_send
  handed,                 \* history: agent -> indexes handed out, in order
  poll_len,               \* history: agent -> index of last row at last poll
  payment_replies,        \* history: business -> replies to payments
  err_returned,           \* history: error results returned to senders
  last_fetch,             \* history: the last raw FetchMessages call
  exported,               \* the portable copy of the actions table
  max_steps,              \* the customers' step budget (NoBudget: none)
  conversation_step,      \* customer -> steps begun
  will_shutdown,          \* agent -> shutdown() was called on it
  run_state,              \* agent -> state of its run() task
  launcher,               \* position of run_agents_with_dependencies
  analytics_pc,           \* MarketplaceAnalytics: "new" or "loaded"
  fuzzy_match_distance,   \* MarketplaceAnalytics.fuzzy_match_distance
  business_agents,        \* business id -> profile read by load_data
  customer_agents,        \* customer id -> profile read by load_data
  replayed,               \* the action rows analyze_actions has processed
  business_messages,      \* ordered dict: <<business id, its messages>>
  customer_orders,        \* customer -> proposals addressed to it
  customer_payments,      \* customer -> payments it sent
  invalid_proposals,      \* proposal id -> findings of the last check
  utility,                \* customer -> last (utility, needs_met) returned
  filter_calls,           \* customer -> calls of filter_valid_proposal_items
  source_db,              \* the durable database: table -> rows
  target_db,              \* the portable database: table -> rows
  convert_pc,             \* position of DatabaseConverter.convert
  verify_args,            \* arguments of the last direct _verify_table call
  verify_returned,        \* its outcome: "ok", "raised" or "none"
  audit_pc,               \* MarketplaceAudit: "new" or "audited"
  audit_rows,             \* the action rows the audit has processed
  order_proposals,        \* MarketplaceAudit.order_proposals
  proposal_metadata,      \* proposal id -> (business, customer) of the send
  llm_logs,               \* the LLM call logs of the logs table, in order
  audit_results,          \* what audit_proposals returned
  event_history,          \* customer -> CustomerAgent._event_history
  decision,               \* history: customer -> outcome of its last decision
  log_tasks,              \* MarketplaceLogger: state of each _log_to_db task
  tasks,                  \* MarketplaceLogger._tasks
  callbacks,              \* done callbacks the event loop has still to run
  flush_pc,               \* position of MarketplaceLogger.flush
  flush_tasks,            \* flush: its copy of _tasks
  logged_before_flush,    \* history: tasks created before flush was called
  llm_calls,              \* customer -> decision calls it has made
  log_writes,             \* the log writes of decision calls in flight
  audit_utility,          \* customer -> what the audit's utility call returned
  gen_client,             \* the client method a structured call runs in
  gen_pc,                 \* "idle", "running", "returned" or "raised"
  gen_attempts,           \* turns of its retry loop begun so far
  gen_messages,           \* the messages list of the call
  gen_requests,           \* history: the messages sent with each request
  gen_responses,          \* history: what came back for each request
  start_pc,               \* start_server: "idle", "checking", "sleeping",
                          \* "healthy" or "raised"
  start_args,             \* its max_retries, retry_delay and max_delay
  current_delay,          \* its current_delay
  health_checks,          \* history: the outcome of each health check
  sleeps                  \* history: the delay of each sleep

marketVars == <<actions, proposal_storage, confirmed_orders,
                completed_transactions, seen_message_indexes,
                last_fetch_index, inbox, outbox, handed, poll_len,
                payment_replies, err_returned, last_fetch, exported>>

lifeVars == <<max_steps, conversation_step, will_shutdown, run_state,
              launcher>>

analyticsVars == <<analytics_pc, fuzzy_match_distance, business_agents,
                   customer_agents, replayed, business_messages,
                   customer_orders, customer_payments, invalid_proposals,
                   utility, filter_calls>>

convertVars == <<source_db, target_db, convert_pc>>

verifyVars == <<verify_args, verify_returned>>

auditVars == <<audit_pc, audit_rows, order_proposals, proposal_metadata,
               llm_logs, audit_results>>

decisionVars == <<event_history, decision>>

toolVars == <<analyticsVars, convertVars, verifyVars, auditVars>>

loggerVars == <<log_tasks, tasks, callbacks, flush_pc, flush_tasks,
                logged_before_flush>>

llmLogVars == <<llm_calls, log_writes>>

genVars == <<gen_client, gen_pc, gen_attempts, gen_messages, gen_requests,
             gen_responses>>

startVars == <<start_pc, start_args, current_delay, health_checks, sleeps>>

lateVars == <<audit_utility, genVars, startVars>>

extraVars == <<decisionVars, loggerVars, llmLogVars, lateVars>>

offlineVars == <<toolVars, extraVars>>

vars == <<marketVars, lifeVars, offlineVars>>

agentVars == <<proposal_storage, confirmed_orders, completed_transactions,
               seen_message_indexes, last_fetch_index, inbox, outbox, handed,
               poll_len, payment_replies>>

\* ------------------------------------------------------------ data model
\* SendMessage request parameters (actions.py SendMessage) with the message
\* reduced to its variant and, for proposals and payments, the proposal id.
\* expiry_time is the OrderProposal field: NoExpiry when not set, "past"
\* for a time that has passed when the proposal is sent.
SendMessage(from, to, mtype, pid) ==
  [name |-> "SendMessage", from_agent_id |-> from, to_agent_id |-> to,
   mtype |-> mtype, pid |-> pid, after_index |-> NoIndex,
   expiry_time |-> NoExpiry]

\* FetchMessages request parameters: from_agent_id is the sender filter.
FetchMessages(from, after_index) ==
  [name |-> "FetchMessages", from_agent_id |-> from, to_agent_id |-> NoId,
   mtype |-> "none", pid |-> NoId, after_index |-> after_index,
   expiry_time |-> NoExpiry]

ActionExecutionResult(is_error, error) ==
  [is_error |-> is_error, error |-> error]

ActionRow(agent_id, request, result) ==
  [index |-> NoIndex, agent_id |-> agent_id, request |-> request,
   result |-> result]

\* --------------------------------------------------------- actions table
LastIndex(db) == IF db = <<>> THEN 0 ELSE db[Len(db)].index

\* Mutant: the index counter is read before the last insert bumped it.
ActionsCreateStaleIndex(db, row) ==
  Append(db, [row EXCEPT !.index = IF db = <<>> THEN 1 ELSE LastIndex(db)])

\* Mutant: the insert replaces the newest row instead of adding one.
ActionsCreateUpsert(db, row) ==
  IF db = <<>> THEN Append(db, [row EXCEPT !.index = 1])
  ELSE [db EXCEPT ![Len(db)] = [row EXCEPT !.index = LastIndex(db)]]

\* TableController.create on the actions table: the row is stored after
\* the rows already there, under the next index.
ActionsCreate(db, row) ==
  Append(db, [row EXCEPT !.index = LastIndex(db) + 1])

\* The rows of a table in index order (get_all / find return them so).
IsSendMessage(row) == row.request.name = "SendMessage"

\* ------------------------------------------------ protocol: send_message
\* queries.actions.send_message.from_agent(a) & order_proposals()
\*   & order_proposal_id(p), evaluated by database.actions.find.
MatchingProposalRows(db, business_id, proposal_id) ==
  {i \in 1..Len(db) :
     /\ IsSendMessage(db[i])
     /\ db[i].request.from_agent_id = business_id
     /\ db[i].request.mtype = "order_proposal"
     /\ db[i].request.pid = proposal_id}

\* Mutant: a proposal whose expiry_time has passed does not count.
ValidateMessageContentUnexpired(send_message, db) ==
  IF send_message.mtype = "payment"
  THEN IF \E i \in MatchingProposalRows(db, send_message.to_agent_id,
                                         send_message.pid) :
            db[i].request.expiry_time = NoExpiry
       THEN "none"
       ELSE "invalid_proposal"
  ELSE "none"

\* Mutant: payments are never checked.
ValidateMessageContentNoCheck(send_message, db) == "none"

\* _validate_message_content: "none" when valid, else the error type.
ValidateMessageContent(send_message, db) ==
  IF send_message.mtype = "payment"
  THEN IF MatchingProposalRows(db, send_message.to_agent_id,
                               send_message.pid) # {}
       THEN "none"
       ELSE "invalid_proposal"
  ELSE "none"

\* Mutant: the recipient is not looked up.
ExecuteSendMessageNoTargetCheck(send_message, db) ==
  LET validation_error == ValidateMessageContent(send_message, db)
  IN IF validation_error # "none"
     THEN ActionExecutionResult(TRUE, validation_error)
     ELSE ActionExecutionResult(FALSE, "none")

\* Mutant: the content is validated before the recipient is looked up.
ExecuteSendMessageValidateFirst(send_message, db) ==
  LET validation_error == ValidateMessageContent(send_message, db)
  IN IF validation_error # "none"
     THEN ActionExecutionResult(TRUE, validation_error)
     ELSE IF send_message.to_agent_id \notin RegisteredAgents
     THEN ActionExecutionResult(TRUE, "to_agent_id_not_found")
     ELSE ActionExecutionResult(FALSE, "none")

\* execute_send_message
ExecuteSendMessage(send_message, db) ==
  IF send_message.to_agent_id \notin RegisteredAgents
  THEN ActionExecutionResult(TRUE, "to_agent_id_not_found")
  ELSE LET validation_error == ValidateMessageContent(send_message, db)
       IN IF validation_error # "none"
          THEN ActionExecutionResult(TRUE, validation_error)
          ELSE ActionExecutionResult(FALSE, "none")

\* ---------------------------------------------- protocol: fetch_messages
\* Mutant: the cursor bound is inclusive.
ExecuteFetchMessagesInclusive(fetch_messages, agent_id, db) ==
  LET Wanted(row) ==
        /\ IsSendMessage(row)
        /\ row.request.to_agent_id = agent_id
        /\ ~row.result.is_error
        /\ fetch_messages.from_agent_id \in {NoId, row.request.from_agent_id}
        /\ row.index >= fetch_messages.after_index
  IN SelectSeq(db, Wanted)

\* Mutant: the recipient filter is dropped.
ExecuteFetchMessagesAnyRecipient(fetch_messages, agent_id, db) ==
  LET Wanted(row) ==
        /\ IsSendMessage(row)
        /\ ~row.result.is_error
        /\ fetch_messages.from_agent_id \in {NoId, row.request.from_agent_id}
        /\ row.index > fetch_messages.after_index
  IN SelectSeq(db, Wanted)

\* execute_fetch_messages: the non-error SendMessage rows addressed to the
\* caller, after the cursor, in ascending index order.  NoIndex (no cursor)
\* is below every index.
ExecuteFetchMessages(fetch_messages, agent_id, db) ==
  LET Wanted(row) ==
        /\ IsSendMessage(row)
        /\ row.request.to_agent_id = agent_id
        /\ ~row.result.is_error
        /\ fetch_messages.from_agent_id \in {NoId, row.request.from_agent_id}
        /\ row.index > fetch_messages.after_index
  IN SelectSeq(db, Wanted)

\* ------------------------------------------------- server: action route
\* The action route stores every executed action with its result, failed
\* or not, before it answers the caller.
RecordAction(db, agent_id, request, result) ==
  ActionsCreate(db, ActionRow(agent_id, request, result))

\* ------------------------------------------------------ proposal storage
NoProposal == [status |-> "absent", business_id |-> NoId, customer_id |-> NoId]

\* OrderProposalStorage.add_proposal: the record of the id, status pending.
AddProposal(storage, proposal_id, business_id, customer_id) ==
  [storage EXCEPT ![proposal_id] =
     [status |-> "pending", business_id |-> business_id,
      customer_id |-> customer_id]]

\* OrderProposalStorage.get_proposal
GetProposal(storage, proposal_id) == storage[proposal_id]

\* OrderProposalStorage.update_proposal_status: no effect when absent.
UpdateProposalStatus(storage, proposal_id, status) ==
  IF storage[proposal_id].status = "absent"
  THEN storage
  ELSE [storage EXCEPT ![proposal_id].status = status]

\* ------------------------------------------------- agents: fetch_messages
Indexes(rows) == {rows[i].index : i \in 1..Len(rows)}

IndexSeq(rows) == [i \in 1..Len(rows) |-> rows[i].index]

SetMax(S) == CHOOSE x \in S : \A y \in S : y <= x

\* Mutant: nothing is ever filtered as already seen.
NewMessagesNoDedup(response, seen) == response

\* BaseSimpleMarketplaceAgent.fetch_messages: the messages of the response
\* whose index was not returned before.
NewMessages(response, seen) ==
  LET Unseen(row) == row.index \notin seen
  IN SelectSeq(response, Unseen)

\* last_fetch_index after the new messages were recorded.
NewLastFetchIndex(last, new_messages) ==
  IF new_messages = <<>> THEN last
  ELSE LET m == SetMax(Indexes(new_messages))
       IN IF last = NoIndex \/ m > last THEN m ELSE last

\* ----------------------------------------------- business: _handle_payment
\* BusinessAgent._handle_payment: a payment is honored when the proposal is
\* stored with status pending.
HandlePayment(storage, confirmed, proposal_id) ==
  IF GetProposal(storage, proposal_id).status = "pending"
  THEN [storage |-> UpdateProposalStatus(storage, proposal_id, "accepted"),
        confirmed |-> Append(confirmed, proposal_id),
        reply |-> "payment_confirmation"]
  ELSE [storage |-> storage, confirmed |-> confirmed,
        reply |-> "proposal_not_found_error"]

\* A message queued in messages_to_send.
OutText == [mtype |-> "text", pid |-> NoId, expiry_time |-> NoExpiry]

OutProposal(proposal_id) ==
  [mtype |-> "order_proposal", pid |-> proposal_id, expiry_time |-> NoExpiry]

\* A proposal whose expiry_time has passed when it is sent.
OutExpiredProposal(proposal_id) ==
  [mtype |-> "order_proposal", pid |-> proposal_id, expiry_time |-> "past"]

\* The first loop of _handle_new_customer_messages over one customer's new
\* messages: payments are handled in order, the last text is remembered.
RECURSIVE HandleCustomerMessages(_, _)
HandleCustomerMessages(messages, st) ==
  IF messages = <<>> THEN st
  ELSE LET m == Head(messages).request
       IN IF m.mtype = "payment"
          THEN LET r == HandlePayment(st.storage, st.confirmed, m.pid)
               IN HandleCustomerMessages(Tail(messages),
                    [st EXCEPT !.storage = r.storage,
                               !.confirmed = r.confirmed,
                               !.to_send = Append(@, OutText),
                               !.replies = Append(@,
                                  [pid |-> m.pid, from |-> m.from_agent_id,
                                   reply |-> r.reply])])
          ELSE IF m.mtype = "text"
          THEN HandleCustomerMessages(Tail(messages),
                                      [st EXCEPT !.has_text = TRUE])
          ELSE HandleCustomerMessages(Tail(messages), st)

\* CustomerAgent._process_new_messages: every received OrderProposal is
\* stored under its id with the sender as business.
RECURSIVE ProcessNewMessages(_, _, _)
ProcessNewMessages(messages, storage, self_id) ==
  IF messages = <<>> THEN storage
  ELSE LET m == Head(messages).request
       IN ProcessNewMessages(Tail(messages),
            IF m.mtype = "order_proposal"
            THEN AddProposal(storage, m.pid, m.from_agent_id, self_id)
            ELSE storage,
            self_id)

\* ---------------------------------------------------------- export
\* DatabaseConverter._copy_actions: the rows in index order, inserted into
\* the empty target table, which assigns its own row ids 1, 2, ...
RECURSIVE CopyActionsInto(_, _)
CopyActionsInto(target, rows) ==
  IF rows = <<>> THEN target
  ELSE CopyActionsInto(ActionsCreate(target, Head(rows)), Tail(rows))

CopyActions(source) == CopyActionsInto(<<>>, source)

\* ------------------------------------------------------------------ Init
Init ==
  /\ actions = <<>>
  /\ proposal_storage =
       [a \in RegisteredAgents |-> [p \in ProposalIds |-> NoProposal]]
  /\ confirmed_orders = [b \in Businesses |-> <<>>]
  /\ completed_transactions = [c \in Customers |-> <<>>]
  /\ seen_message_indexes = [a \in RegisteredAgents |-> {}]
  /\ last_fetch_index = [a \in RegisteredAgents |-> NoIndex]
  /\ inbox = [b \in Businesses |-> <<>>]
  /\ outbox = [b \in Businesses |-> [c \in Customers |-> <<>>]]
  /\ handed = [a \in RegisteredAgents |-> <<>>]
  /\ poll_len = [a \in RegisteredAgents |-> 0]
  /\ payment_replies = [b \in Businesses |-> <<>>]
  /\ err_returned = 0
  /\ last_fetch = [agent_id |-> NoId, after_index |-> NoIndex,
                   from_agent_id |-> NoId, rows |-> <<>>]
  /\ exported = <<>>
  /\ max_steps = NoBudget
  /\ conversation_step = [c \in Customers |-> 0]
  /\ will_shutdown = [a \in RegisteredAgents |-> FALSE]
  /\ run_state = [a \in RegisteredAgents |-> "created"]
  /\ analytics_pc = "new"
  /\ fuzzy_match_distance = 0
  /\ business_agents = <<>>
  /\ customer_agents = <<>>
  /\ replayed = <<>>
  /\ business_messages = <<>>
  /\ customer_orders = [c \in Customers |-> <<>>]
  /\ customer_payments = [c \in Customers |-> <<>>]
  /\ invalid_proposals = [p \in ProposalIds |-> <<>>]
  /\ utility = [c \in Customers |-> <<>>]
  /\ filter_calls = [c \in Customers |-> <<>>]
  /\ source_db = [t \in {"agents", "actions", "logs"} |-> {}]
  /\ target_db = [t \in {"agents", "actions", "logs"} |-> {}]
  /\ convert_pc = "idle"
  /\ verify_args = <<>>
  /\ verify_returned = "none"
  /\ audit_pc = "new"
  /\ audit_rows = <<>>
  /\ order_proposals = <<>>
  /\ proposal_metadata = [p \in AuditProposalIds |-> NoMetadata]
  /\ llm_logs = <<>>
  /\ audit_results = <<>>
  /\ event_history = [c \in Customers |-> <<>>]
  /\ decision = [c \in Customers |-> "none"]
  /\ log_tasks = [t \in 1..MaxLogCalls |-> "none"]
  /\ tasks = <<>>
  /\ callbacks = {}
  /\ flush_pc = "idle"
  /\ flush_tasks = <<>>
  /\ logged_before_flush = {}
  /\ llm_calls = [c \in Customers |-> 0]
  /\ log_writes = {}
  /\ audit_utility = [c \in Customers |-> <<>>]
  /\ gen_client = "none"
  /\ gen_pc = "idle"
  /\ gen_attempts = 0
  /\ gen_messages = <<>>
  /\ gen_requests = <<>>
  /\ gen_responses = <<>>
  /\ start_pc = "idle"
  /\ start_args = [max_retries |-> 0, retry_delay |-> 0, max_delay |-> 0]
  /\ current_delay = 0
  /\ health_checks = <<>>
  /\ sleeps = <<>>
  /\ launcher = "new"

protoVars == <<err_returned, last_fetch, exported>>

Ok == ActionExecutionResult(FALSE, "none")

\* ------------------------------------------------------- agent actions
\* The server side of one send_message call of an agent.
SendRequest(agent_id, request) ==
  LET result == ExecuteSendMessage(request, actions)
  IN /\ actions' = RecordAction(actions, agent_id, request, result)
     /\ err_returned' = IF result.is_error THEN err_returned + 1
                        ELSE err_returned

Send(agent_id, to, mtype, pid) ==
  SendRequest(agent_id, SendMessage(agent_id, to, mtype, pid))

\* One fetch_messages call of an agent (no cursor, no filter), with the
\* bookkeeping of the messages it returns as new.
Poll(agent_id, new) ==
  LET request == FetchMessages(NoId, NoIndex)
  IN /\ new = NewMessages(ExecuteFetchMessages(request, agent_id, actions),
                          seen_message_indexes[agent_id])
     /\ actions' = RecordAction(actions, agent_id, request, Ok)
     /\ seen_message_indexes' =
          [seen_message_indexes EXCEPT ![agent_id] = @ \cup Indexes(new)]
     /\ last_fetch_index' =
          [last_fetch_index EXCEPT ![agent_id] = NewLastFetchIndex(@, new)]
     /\ handed' = [handed EXCEPT ![agent_id] = @ \o IndexSeq(new)]
     /\ poll_len' = [poll_len EXCEPT ![agent_id] = LastIndex(actions)]

\* CustomerAgent, action check_messages.
CustomerCheckMessages(c, max) ==
  /\ Len(actions) < max
  /\ \E new \in {NewMessages(
                   ExecuteFetchMessages(FetchMessages(NoId, NoIndex), c,
                                        actions),
                   seen_message_indexes[c])} :
       /\ Poll(c, new)
       /\ proposal_storage' =
            [proposal_storage EXCEPT ![c] = ProcessNewMessages(new, @, c)]
  /\ UNCHANGED <<confirmed_orders, completed_transactions, inbox, outbox,
                 payment_replies, protoVars>>

\* CustomerAgent, action send_messages, one text message.
CustomerSendText(c, to, max) ==
  /\ Len(actions) < max
  /\ Send(c, to, "text", NoId)
  /\ UNCHANGED <<agentVars, last_fetch, exported>>

\* Mutant: the pay loop without the lookup of the stored proposal.
CustomerPayUnchecked(c, p, max) ==
  LET stored == GetProposal(proposal_storage[c], p)
      request == SendMessage(c, stored.business_id, "payment", p)
      result == ExecuteSendMessage(request, actions)
  IN /\ Len(actions) < max
     /\ Send(c, stored.business_id, "payment", p)
     /\ IF ~result.is_error
        THEN /\ proposal_storage' =
                  [proposal_storage EXCEPT
                     ![c] = UpdateProposalStatus(@, p, "accepted")]
             /\ completed_transactions' =
                  [completed_transactions EXCEPT ![c] = Append(@, p)]
        ELSE UNCHANGED <<proposal_storage, completed_transactions>>
     /\ UNCHANGED <<confirmed_orders, seen_message_indexes, last_fetch_index,
                    inbox, outbox, handed, poll_len, payment_replies,
                    last_fetch, exported>>

\* CustomerAgent, action send_messages, one pay message: a Payment is sent
\* when the proposal is in the customer's storage; for an unknown id the
\* loop only records a warning and nothing is sent.
CustomerPay(c, p, max) ==
  LET stored == GetProposal(proposal_storage[c], p)
      request == SendMessage(c, stored.business_id, "payment", p)
      result == ExecuteSendMessage(request, actions)
  IN /\ Len(actions) < max
     /\ stored.status # "absent"
     /\ Send(c, stored.business_id, "payment", p)
     /\ IF ~result.is_error
        THEN /\ proposal_storage' =
                  [proposal_storage EXCEPT
                     ![c] = UpdateProposalStatus(@, p, "accepted")]
             /\ completed_transactions' =
                  [completed_transactions EXCEPT ![c] = Append(@, p)]
        ELSE UNCHANGED <<proposal_storage, completed_transactions>>
     /\ UNCHANGED <<confirmed_orders, seen_message_indexes, last_fetch_index,
                    inbox, outbox, handed, poll_len, payment_replies,
                    last_fetch, exported>>

\* BusinessAgent.step, the fetch: only when the previous step has ended.
BusinessFetch(b, max) ==
  /\ Len(actions) < max
  /\ inbox[b] = <<>>
  /\ \A c \in Customers : outbox[b][c] = <<>>
  /\ \E new \in {NewMessages(
                   ExecuteFetchMessages(FetchMessages(NoId, NoIndex), b,
                                        actions),
                   seen_message_indexes[b])} :
       /\ Poll(b, new)
       /\ inbox' = [inbox EXCEPT ![b] = new]
  /\ UNCHANGED <<proposal_storage, confirmed_orders, completed_transactions,
                 outbox, payment_replies, protoVars>>

\* BusinessAgent._handle_new_customer_messages up to the send loop, for the
\* new messages of one customer; response is what the response handler
\* answers when the customer sent text.
BusinessHandle(b, c, response) ==
  LET FromC(row) == row.request.from_agent_id = c
      NotFromC(row) == row.request.from_agent_id # c
      mine == SelectSeq(inbox[b], FromC)
      st == HandleCustomerMessages(mine,
              [storage |-> proposal_storage[b],
               confirmed |-> confirmed_orders[b],
               to_send |-> <<>>, replies |-> <<>>, has_text |-> FALSE])
  IN /\ mine # <<>>
     /\ ~st.has_text => response = OutText
     /\ proposal_storage' = [proposal_storage EXCEPT ![b] = st.storage]
     /\ confirmed_orders' = [confirmed_orders EXCEPT ![b] = st.confirmed]
     /\ payment_replies' = [payment_replies EXCEPT ![b] = @ \o st.replies]
     /\ outbox' = [outbox EXCEPT ![b][c] =
                     IF st.has_text THEN Append(st.to_send, response)
                     ELSE st.to_send]
     /\ inbox' = [inbox EXCEPT ![b] = SelectSeq(@, NotFromC)]
     /\ UNCHANGED <<actions, completed_transactions, seen_message_indexes,
                    last_fetch_index, handed, poll_len, protoVars>>

\* The send loop of _handle_new_customer_messages, one message: a proposal
\* is stored, then the message is sent.
BusinessSend(b, c, max) ==
  /\ Len(actions) < max
  /\ outbox[b][c] # <<>>
  /\ LET m == Head(outbox[b][c])
     IN /\ proposal_storage' =
             IF m.mtype = "order_proposal"
             THEN [proposal_storage EXCEPT ![b] = AddProposal(@, m.pid, b, c)]
             ELSE proposal_storage
        /\ SendRequest(b, [SendMessage(b, c, m.mtype, m.pid) EXCEPT
                              !.expiry_time = m.expiry_time])
  /\ outbox' = [outbox EXCEPT ![b][c] = Tail(@)]
  /\ UNCHANGED <<confirmed_orders, completed_transactions,
                 seen_message_indexes, last_fetch_index, inbox, handed,
                 poll_len, payment_replies, last_fetch, exported>>

\* The send loop when send_message raises (the request does not reach the
\* server): the proposal was stored before the call, the error is logged
\* and the loop goes on with the next message.
BusinessSendFails(b, c) ==
  /\ outbox[b][c] # <<>>
  /\ LET m == Head(outbox[b][c])
     IN proposal_storage' =
          IF m.mtype = "order_proposal"
          THEN [proposal_storage EXCEPT ![b] = AddProposal(@, m.pid, b, c)]
          ELSE proposal_storage
  /\ outbox' = [outbox EXCEPT ![b][c] = Tail(@)]
  /\ UNCHANGED <<actions, confirmed_orders, completed_transactions,
                 seen_message_indexes, last_fetch_index, inbox, handed,
                 poll_len, payment_replies, protoVars>>

AgentsNext(Cs, Bs, Ps, Targets, max) ==
  \/ \E c \in Cs : CustomerCheckMessages(c, max)
  \/ \E c \in Cs, to \in Targets : CustomerSendText(c, to, max)
  \/ \E c \in Cs, p \in Ps : CustomerPay(c, p, max)
  \/ \E b \in Bs : BusinessFetch(b, max)
  \/ \E b \in Bs, c \in Cs, p \in Ps :
       \/ BusinessHandle(b, c, OutText)
       \/ BusinessHandle(b, c, OutProposal(p))
  \/ \E b \in Bs, c \in Cs : BusinessSend(b, c, max)

Next ==
  /\ AgentsNext(Customers, Businesses, ProposalIds,
                Businesses \cup {UnknownAgentId}, MaxActions)
  /\ UNCHANGED <<lifeVars, offlineVars>>

Spec == Init /\ [][Next]_vars

\* One customer and one business over a longer log.
LedgerNext ==
  /\ AgentsNext({"c1"}, {"b1"}, {"p1"}, {"b1"}, MaxLedgerActions)
  /\ UNCHANGED <<lifeVars, offlineVars>>

SpecLedger == Init /\ [][LedgerNext]_vars

\* One customer and one business whose proposals may have expired.
PaymentsNext ==
  /\ \/ AgentsNext({"c1"}, {"b1"}, {"p1"}, {"b1"}, MaxPayActions)
     \/ BusinessHandle("b1", "c1", OutExpiredProposal("p1"))
  /\ UNCHANGED <<lifeVars, offlineVars>>

SpecPayments == Init /\ [][PaymentsNext]_vars

\* A registered agent posts a Payment to the server itself (the action
\* route serves any registered agent), without the customer pay loop.
AgentSendsPayment(agent_id, to, p, max) ==
  /\ Len(actions) < max
  /\ Send(agent_id, to, "payment", p)
  /\ UNCHANGED <<agentVars, last_fetch, exported>>

\* Customer c1 and business b1 as above, a second registered agent c2 that
\* b1 never addressed, and sends of b1 that may fail.
PayersNext ==
  /\ \/ AgentsNext({"c1"}, {"b1"}, {"p1"}, {"b1"}, MaxPayerActions)
     \/ AgentSendsPayment("c2", "b1", "p1", MaxPayerActions)
     \/ BusinessHandle("b1", "c2", OutText)
     \/ BusinessSend("b1", "c2", MaxPayerActions)
     \/ \E c \in Customers : BusinessSendFails("b1", c)
  /\ UNCHANGED <<lifeVars, offlineVars>>

SpecPayers == Init /\ [][PayersNext]_vars

\* ---------------------------------------------------- protocol actions
\* The server executes a SendMessage request of a registered agent.
ProtoSend(agent_id, to, mtype, pid) ==
  /\ Len(actions) < MaxProtoActions
  /\ Send(agent_id, to, mtype, pid)
  /\ UNCHANGED <<agentVars, last_fetch, exported>>

NumFetches(db) ==
  Cardinality({i \in 1..Len(db) : db[i].request.name = "FetchMessages"})

\* The server executes a FetchMessages request of a registered agent.
ProtoFetch(agent_id, from, after_index) ==
  LET request == FetchMessages(from, after_index)
  IN /\ Len(actions) < MaxProtoActions
     /\ NumFetches(actions) < MaxFetches
     /\ actions' = RecordAction(actions, agent_id, request, Ok)
     /\ last_fetch' = [agent_id |-> agent_id, after_index |-> after_index,
                       from_agent_id |-> from,
                       rows |-> ExecuteFetchMessages(request, agent_id,
                                                     actions)]
     /\ UNCHANGED <<agentVars, err_returned, exported>>

\* DatabaseConverter.convert, the actions table; the export runs when the
\* experiment is over.
Export ==
  /\ Len(actions) = MaxProtoActions
  /\ exported # CopyActions(actions)
  /\ exported' = CopyActions(actions)
  /\ UNCHANGED <<actions, agentVars, err_returned, last_fetch>>

\* The requests the server is driven with: text and payments of customers,
\* proposals of businesses, to a registered or an unregistered recipient.
ProtoRequest ==
  \/ \E c \in Customers, to \in Businesses \cup {UnknownAgentId} :
       ProtoSend(c, to, "text", NoId)
  \/ \E b \in Businesses, to \in {"c1", UnknownAgentId}, p \in ProposalIds :
       ProtoSend(b, to, "order_proposal", p)
  \/ \E c \in Customers, to \in Businesses \cup {UnknownAgentId},
        p \in ProposalIds :
       ProtoSend(c, to, "payment", p)
  \/ \E a \in {"b1", "c1"}, from \in {NoId, "c1"},
        k \in 0..LastIndex(actions) :
       ProtoFetch(a, from, IF k = 0 THEN NoIndex ELSE k)
  \/ Export

ProtoNext == ProtoRequest /\ UNCHANGED <<lifeVars, offlineVars>>

SpecProtocol == Init /\ [][ProtoNext]_vars

\* ------------------------------------------ launcher and agent run loops
\* run_experiment creates the customers with max_steps = customer_max_steps
\* and run_agents_with_dependencies starts a run() task for every agent.
LauncherStart(n) ==
  /\ launcher = "new"
  /\ max_steps' = n
  /\ run_state' = [a \in RegisteredAgents |-> "running"]
  /\ launcher' = "wait_primary"
  /\ UNCHANGED <<marketVars, conversation_step, will_shutdown>>

\* CustomerAgent.step around the action: the step is counted first, and
\* after the action shutdown() is called when the budget is used up (or
\* when the action was end_transaction).
StepEnds(c, ended) ==
  /\ conversation_step' = [conversation_step EXCEPT ![c] = @ + 1]
  /\ will_shutdown' =
       [will_shutdown EXCEPT ![c] =
          \/ ended
          \/ max_steps # NoBudget /\ conversation_step[c] + 1 >= max_steps]

\* One CustomerAgent.step of the run loop, which goes on until shutdown.
CustomerStep(c) ==
  /\ run_state[c] = "running"
  /\ ~will_shutdown[c]
  /\ \/ CustomerCheckMessages(c, MaxLifeActions) /\ StepEnds(c, FALSE)
     \/ \E to \in Businesses :
          CustomerSendText(c, to, MaxLifeActions) /\ StepEnds(c, FALSE)
     \/ UNCHANGED marketVars /\ StepEnds(c, FALSE)
     \/ UNCHANGED marketVars /\ StepEnds(c, TRUE)
  /\ UNCHANGED <<max_steps, run_state, launcher>>

\* The run loop of an agent ends when it finds the shutdown flag set; a
\* business has ended its step then.
AgentStops(a) ==
  /\ run_state[a] = "running"
  /\ will_shutdown[a]
  /\ a \in Businesses =>
       inbox[a] = <<>> /\ \A c \in Customers : outbox[a][c] = <<>>
  /\ run_state' = [run_state EXCEPT ![a] = "finished"]
  /\ UNCHANGED <<marketVars, max_steps, conversation_step, will_shutdown,
                 launcher>>

\* The run() task of an agent ends with an exception.
AgentFails(a) ==
  /\ run_state[a] = "running"
  /\ run_state' = [run_state EXCEPT ![a] = "failed"]
  /\ UNCHANGED <<marketVars, max_steps, conversation_step, will_shutdown,
                 launcher>>

\* The steps of a running business.
BusinessRuns(b) ==
  /\ run_state[b] = "running"
  /\ \/ ~will_shutdown[b] /\ BusinessFetch(b, MaxLifeActions)
     \/ \E c \in Customers : BusinessHandle(b, c, OutText)
     \/ \E c \in Customers : BusinessSend(b, c, MaxLifeActions)
  /\ UNCHANGED lifeVars

\* Mutant: the dependents are signaled as soon as one primary is done.
LauncherSignalsDependentsEarly ==
  /\ launcher = "wait_primary"
  /\ \E c \in Customers : run_state[c] = "finished"
  /\ \A c \in Customers : run_state[c] # "failed"
  /\ will_shutdown' =
       [a \in RegisteredAgents |-> will_shutdown[a] \/ a \in Businesses]
  /\ launcher' = "wait_dependent"
  /\ UNCHANGED <<marketVars, max_steps, conversation_step, run_state>>

\* run_agents_with_dependencies: gather(*primary_tasks) returned, every
\* dependent agent is signaled.
LauncherSignalsDependents ==
  /\ launcher = "wait_primary"
  /\ \A c \in Customers : run_state[c] = "finished"
  /\ will_shutdown' =
       [a \in RegisteredAgents |-> will_shutdown[a] \/ a \in Businesses]
  /\ launcher' = "wait_dependent"
  /\ UNCHANGED <<marketVars, max_steps, conversation_step, run_state>>

\* gather(*dependent_tasks) returned.
LauncherReturns ==
  /\ launcher = "wait_dependent"
  /\ \A b \in Businesses : run_state[b] = "finished"
  /\ launcher' = "returned"
  /\ UNCHANGED <<marketVars, max_steps, conversation_step, will_shutdown,
                 run_state>>

\* The except branch: the gather the launcher waits in raised because one
\* of its tasks failed; every agent is signaled.
LauncherCatches ==
  /\ \/ launcher = "wait_primary"
        /\ \E c \in Customers : run_state[c] = "failed"
     \/ launcher = "wait_dependent"
        /\ \E b \in Businesses : run_state[b] = "failed"
  /\ will_shutdown' = [a \in RegisteredAgents |-> TRUE]
  /\ launcher' = "wait_all"
  /\ UNCHANGED <<marketVars, max_steps, conversation_step, run_state>>

\* Mutant: the exception is raised again without awaiting the tasks.
LauncherRaisesAtOnce ==
  /\ launcher = "wait_all"
  /\ launcher' = "raised"
  /\ UNCHANGED <<marketVars, max_steps, conversation_step, will_shutdown,
                 run_state>>

\* gather(..., return_exceptions=True) returned, the exception is raised
\* again.
LauncherRaises ==
  /\ launcher = "wait_all"
  /\ \A a \in RegisteredAgents : run_state[a] # "running"
  /\ launcher' = "raised"
  /\ UNCHANGED <<marketVars, max_steps, conversation_step, will_shutdown,
                 run_state>>

LifeStep ==
  \/ \E n \in 0..MaxStepBudget : LauncherStart(n)
  \/ \E c \in Customers : CustomerStep(c)
  \/ \E b \in Businesses : BusinessRuns(b)
  \/ \E a \in RegisteredAgents : AgentStops(a)
  \/ \E a \in RegisteredAgents : AgentFails(a)
  \/ LauncherSignalsDependents
  \/ LauncherReturns
  \/ LauncherCatches
  \/ LauncherRaises

LifeNext == LifeStep /\ UNCHANGED offlineVars

SpecLifecycle == Init /\ [][LifeNext]_vars

\* --------------------------------------------- the customer's decision
NoAction == "none"

\* An entry of _event_history is a plain string (kind "str") or the tuple
\* of an executed action and its result (kind "tuple").
LLMDecisionFailed == [kind |-> "str", value |-> "LLM decision failed"]

ActionEvent(action_type) == [kind |-> "tuple", value |-> action_type]

\* The outcomes of the decision call: it raises or returns an action.
DecisionOutcomes ==
  {"raises", "check_messages", "send_messages", "end_transaction"}

\* Mutant: the failure is caught but nothing is appended to the history.
GenerateCustomerActionSilent(history, outcome) ==
  IF outcome = "raises"
  THEN [action |-> NoAction, history |-> history]
  ELSE [action |-> outcome, history |-> history]

\* CustomerAgent._generate_customer_action: the action the decision call
\* returned; when the call raises, the exception is caught, a string is
\* appended to the event history and None is returned.
GenerateCustomerAction(history, outcome) ==
  IF outcome = "raises"
  THEN [action |-> NoAction, history |-> Append(history, LLMDecisionFailed)]
  ELSE [action |-> outcome, history |-> history]

\* CustomerAgent._execute_customer_action for the decided action, with the
\* entry it appends to the event history.
ExecuteCustomerAction(c, action, history) ==
  /\ \/ /\ action = "check_messages"
        /\ CustomerCheckMessages(c, MaxLifeActions)
     \/ /\ action = "send_messages"
        /\ \E to \in Businesses : CustomerSendText(c, to, MaxLifeActions)
  /\ event_history' =
       [event_history EXCEPT ![c] = Append(history, ActionEvent(action))]

\* One CustomerAgent.step: the step is counted, the action is decided and,
\* if there is one, executed; then the budget is looked at.
CustomerDecides(c) ==
  /\ run_state[c] = "running"
  /\ ~will_shutdown[c]
  /\ \E outcome \in DecisionOutcomes :
       LET g == GenerateCustomerAction(event_history[c], outcome)
       IN /\ decision' = [decision EXCEPT ![c] = outcome]
          /\ \/ /\ g.action = NoAction
                /\ event_history' = [event_history EXCEPT ![c] = g.history]
                /\ UNCHANGED marketVars
                /\ StepEnds(c, FALSE)
             \/ /\ g.action = "end_transaction"
                /\ event_history' = [event_history EXCEPT ![c] = g.history]
                /\ UNCHANGED marketVars
                /\ StepEnds(c, TRUE)
             \/ /\ ExecuteCustomerAction(c, g.action, g.history)
                /\ StepEnds(c, FALSE)
  /\ UNCHANGED <<max_steps, run_state, launcher>>

DecisionStep ==
  \/ \E n \in 1..MaxStepBudget : LauncherStart(n) /\ UNCHANGED decisionVars
  \/ \E c \in Customers : CustomerDecides(c)
  \/ \E c \in Customers : AgentStops(c) /\ UNCHANGED decisionVars

DecisionNext ==
  DecisionStep /\ UNCHANGED <<toolVars, loggerVars, llmLogVars, lateVars>>

SpecDecision == Init /\ [][DecisionNext]_vars

\* ------------------------------------------------------------ the logger
\* list.remove(x): the first occurrence is removed; ValueError when absent.
RECURSIVE ListRemove(_, _)
ListRemove(list, x) ==
  IF list = <<>> THEN <<>>
  ELSE IF Head(list) = x THEN Tail(list)
  ELSE <<Head(list)>> \o ListRemove(Tail(list), x)

Finished == {"succeeded", "failed"}

CreatedTasks == {t \in 1..MaxLogCalls : log_tasks[t] # "none"}

\* MarketplaceLogger._log: the task of the database write is created,
\* appended to _tasks and given _remove_task as done callback.
LogCall ==
  /\ \E t \in 1..MaxLogCalls :
       /\ log_tasks[t] = "none"
       /\ \A u \in 1..(t - 1) : log_tasks[u] # "none"
       /\ log_tasks' = [log_tasks EXCEPT ![t] = "pending"]
       /\ tasks' = Append(tasks, t)
  /\ UNCHANGED <<callbacks, flush_pc, flush_tasks, logged_before_flush>>

\* MarketplaceLogger._log_to_db ends: logs.create returned or raised (the
\* exception is caught); the event loop schedules the done callback.
LogToDbEnds(t, outcome) ==
  /\ log_tasks[t] = "pending"
  /\ log_tasks' = [log_tasks EXCEPT ![t] = outcome]
  /\ callbacks' = callbacks \cup {t}
  /\ UNCHANGED <<tasks, flush_pc, flush_tasks, logged_before_flush>>

\* MarketplaceLogger._remove_task, run as done callback of task t.
RemoveTask(t) ==
  /\ t \in callbacks
  /\ callbacks' = callbacks \ {t}
  /\ tasks' = ListRemove(tasks, t)
  /\ UNCHANGED <<log_tasks, flush_pc, flush_tasks, logged_before_flush>>

\* Mutant: flush clears _tasks before it copies the list.
FlushBeginsClearFirst ==
  /\ flush_pc = "idle"
  /\ flush_tasks' = <<>>
  /\ tasks' = <<>>
  /\ logged_before_flush' = CreatedTasks
  /\ flush_pc' = "gather"
  /\ UNCHANGED <<log_tasks, callbacks>>

\* MarketplaceLogger.flush up to the await: the list is copied and cleared.
FlushBegins ==
  /\ flush_pc = "idle"
  /\ flush_tasks' = tasks
  /\ tasks' = <<>>
  /\ logged_before_flush' = CreatedTasks
  /\ flush_pc' = "gather"
  /\ UNCHANGED <<log_tasks, callbacks>>

\* asyncio.gather(*tasks, return_exceptions=True) returns when every task
\* of the copy is done.
FlushReturns ==
  /\ flush_pc = "gather"
  /\ \A i \in 1..Len(flush_tasks) : log_tasks[flush_tasks[i]] \in Finished
  /\ flush_pc' = "returned"
  /\ UNCHANGED <<log_tasks, tasks, callbacks, flush_tasks,
                 logged_before_flush>>

\* The caller goes on and may call flush again.
FlushCalledAgain ==
  /\ flush_pc = "returned"
  /\ flush_pc' = "idle"
  /\ UNCHANGED <<log_tasks, tasks, callbacks, flush_tasks,
                 logged_before_flush>>

LoggerStep ==
  \/ LogCall
  \/ \E t \in 1..MaxLogCalls, outcome \in Finished : LogToDbEnds(t, outcome)
  \/ \E t \in 1..MaxLogCalls : RemoveTask(t)
  \/ FlushBegins
  \/ FlushReturns
  \/ FlushCalledAgain

LoggerNext ==
  /\ LoggerStep
  /\ UNCHANGED <<marketVars, lifeVars, toolVars, decisionVars, llmLogVars,
                 lateVars>>

SpecLogger == Init /\ [][LoggerNext]_vars

\* ------------------------------------------------- shutdown of a business
\* One CustomerAgent.step of a customer without step budget that shops:
\* it checks its messages, writes to a business or pays a stored proposal.
CustomerShops(c) ==
  /\ run_state[c] = "running"
  /\ ~will_shutdown[c]
  /\ \/ CustomerCheckMessages(c, MaxShutdownActions)
     \/ \E to \in Businesses : CustomerSendText(c, to, MaxShutdownActions)
     \/ \E p \in {"p1"} : CustomerPay(c, p, MaxShutdownActions)
  /\ StepEnds(c, FALSE)
  /\ UNCHANGED <<max_steps, run_state, launcher>>

\* One CustomerAgent.step whose decision is end_transaction.
CustomerEnds(c) ==
  /\ run_state[c] = "running"
  /\ ~will_shutdown[c]
  /\ StepEnds(c, TRUE)
  /\ UNCHANGED <<marketVars, max_steps, run_state, launcher>>

\* Mutant: the run loop starts another step although shutdown() was called.
BusinessServesAfterSignal(b) ==
  /\ run_state[b] = "running"
  /\ \/ BusinessFetch(b, MaxShutdownActions + 1)
     \/ \E c \in Customers : BusinessHandle(b, c, OutText)
     \/ \E c \in Customers : BusinessHandle(b, c, OutProposal("p1"))
     \/ \E c \in Customers : BusinessSend(b, c, 2 * MaxShutdownActions + 1)
  /\ UNCHANGED lifeVars

\* The steps of a running business that answers with text or a proposal.
\* A step begins with the fetch, only while the shutdown flag is not set;
\* a step in progress is carried to its end. The log has room for the
\* fetches and the answers of the business beyond the customers' actions.
BusinessServes(b) ==
  /\ run_state[b] = "running"
  /\ \/ ~will_shutdown[b] /\ BusinessFetch(b, MaxShutdownActions + 1)
     \/ \E c \in Customers : BusinessHandle(b, c, OutText)
     \/ \E c \in Customers : BusinessHandle(b, c, OutProposal("p1"))
     \/ \E c \in Customers : BusinessSend(b, c, 2 * MaxShutdownActions + 1)
  /\ UNCHANGED lifeVars

\* A run of the launcher in which no task fails: customer c1 shops, c2
\* ends its transaction at once.
ShutdownStep ==
  \/ LauncherStart(NoBudget)
  \/ CustomerShops("c1")
  \/ \E c \in Customers : CustomerEnds(c)
  \/ \E b \in Businesses : BusinessServes(b)
  \/ \E a \in RegisteredAgents : AgentStops(a)
  \/ LauncherSignalsDependents
  \/ LauncherReturns

ShutdownNext == ShutdownStep /\ UNCHANGED offlineVars

SpecShutdown == Init /\ [][ShutdownNext]_vars

\* The event loop runs every task that is ready: a business whose step is
\* in progress goes on with it, and a run loop that can end ends.
ShutdownFairness ==
  \A b \in Businesses :
    /\ WF_vars(BusinessServes(b) /\ UNCHANGED offlineVars)
    /\ WF_vars(AgentStops(b) /\ UNCHANGED offlineVars)

SpecShutdownFair == SpecShutdown /\ ShutdownFairness

\* ------------------------------------------------------ a task that fails
\* One CustomerAgent.step that writes to a business.
CustomerWrites(c) ==
  /\ run_state[c] = "running"
  /\ ~will_shutdown[c]
  /\ \E to \in Businesses : CustomerSendText(c, to, MaxLifeActions)
  /\ StepEnds(c, FALSE)
  /\ UNCHANGED <<max_steps, run_state, launcher>>

\* A run of the launcher in which the run() task of any agent may fail.
FailureStep ==
  \/ LauncherStart(NoBudget)
  \/ \E c \in Customers : CustomerWrites(c)
  \/ \E c \in Customers : CustomerEnds(c)
  \/ \E b \in Businesses : BusinessServes(b)
  \/ \E a \in RegisteredAgents : AgentStops(a)
  \/ LauncherSignalsDependents
  \/ LauncherReturns
  \/ \E a \in RegisteredAgents : AgentFails(a)
  \/ LauncherCatches
  \/ LauncherRaises

FailureNext == FailureStep /\ UNCHANGED offlineVars

\* The event loop runs every task that is ready, the launcher included,
\* and every customer comes to decide end_transaction.
FailureFairness ==
  /\ \A a \in RegisteredAgents : WF_vars(AgentStops(a) /\ UNCHANGED offlineVars)
  /\ \A b \in Businesses : WF_vars(BusinessServes(b) /\ UNCHANGED offlineVars)
  /\ \A c \in Customers : WF_vars(CustomerEnds(c) /\ UNCHANGED offlineVars)
  /\ WF_vars(LauncherSignalsDependents /\ UNCHANGED offlineVars)
  /\ WF_vars(LauncherCatches /\ UNCHANGED offlineVars)
  /\ WF_vars(LauncherRaises /\ UNCHANGED offlineVars)

SpecFailure == Init /\ [][FailureNext]_vars /\ FailureFairness

\* =================================================================
\* Analytics (experiments/run_analytics.py)
\* =================================================================
\* Item names are strings, held as sequences of characters.
taco == <<"t", "a", "c", "o">>
tako == <<"t", "a", "k", "o">>
Taco == <<"T", "a", "c", "o">>
burrito == <<"b", "u", "r", "r", "i", "t", "o">>
buritto == <<"b", "u", "r", "i", "t", "t", "o">>

\* Code point of a character (the order Python compares strings by).
Ord(ch) ==
  CASE ch = "T" -> 84  [] ch = "a" -> 97  [] ch = "b" -> 98
    [] ch = "c" -> 99  [] ch = "i" -> 105 [] ch = "k" -> 107
    [] ch = "o" -> 111 [] ch = "r" -> 114 [] ch = "t" -> 116
    [] ch = "u" -> 117

\* str.lower()
Lower(s) == [i \in 1..Len(s) |-> IF s[i] = "T" THEN "t" ELSE s[i]]

\* s1 < s2 on strings
RECURSIVE StrLess(_, _)
StrLess(s1, s2) ==
  IF s2 = <<>> THEN FALSE
  ELSE IF s1 = <<>> THEN TRUE
  ELSE IF Head(s1) # Head(s2) THEN Ord(Head(s1)) < Ord(Head(s2))
  ELSE StrLess(Tail(s1), Tail(s2))

Min3(a, b, c) ==
  IF a <= b /\ a <= c THEN a ELSE IF b <= c THEN b ELSE c

\* The inner loop of levenshtein_distance: current_row for character c1,
\* extended for s2[j], s2[j+1], ...
RECURSIVE LevenshteinRow(_, _, _, _, _)
LevenshteinRow(c1, s2, previous_row, current_row, j) ==
  IF j > Len(s2) THEN current_row
  ELSE LET insertions == previous_row[j + 1] + 1
           deletions == current_row[j] + 1
           substitutions == previous_row[j] + (IF c1 # s2[j] THEN 1 ELSE 0)
       IN LevenshteinRow(c1, s2, previous_row,
            Append(current_row, Min3(insertions, deletions, substitutions)),
            j + 1)

\* The outer loop: the last row after characters s1[i], s1[i+1], ...
\* A row starts with the number of characters of s1 consumed so far, so
\* the loop ends on the row that starts with Len(s1).
RECURSIVE LevenshteinRows(_, _, _, _)
LevenshteinRows(s1, s2, previous_row, i) ==
  IF previous_row[1] = Len(s1) THEN previous_row
  ELSE LevenshteinRows(s1, s2,
         LevenshteinRow(s1[i], s2, previous_row, <<i>>, 1), i + 1)

LevenshteinDistance(s1, s2) ==
  LET long == IF Len(s1) < Len(s2) THEN s2 ELSE s1
      short == IF Len(s1) < Len(s2) THEN s1 ELSE s2
      last_row == LevenshteinRows(long, short,
                    [k \in 1..(Len(short) + 1) |-> k - 1], 1)
  IN IF Len(short) = 0 THEN Len(long) ELSE last_row[Len(last_row)]

\* ------------------------------------------------------ fuzzy matching
\* The pairs strictly below the distance.
FuzzyDistancesBelow(menu_items, proposal_items) ==
  {t \in {<<LevenshteinDistance(Lower(m), Lower(p)), m, p>> :
            m \in menu_items, p \in proposal_items} :
     t[1] < fuzzy_match_distance}

\* (distance, menu_item, proposal_item) for every pair within the distance.
FuzzyDistances(menu_items, proposal_items) ==
  {t \in {<<LevenshteinDistance(Lower(m), Lower(p)), m, p>> :
            m \in menu_items, p \in proposal_items} :
     t[1] <= fuzzy_match_distance}

\* Python's order on (int, str, str) tuples.
TupleLess(x, y) ==
  \/ x[1] < y[1]
  \/ /\ x[1] = y[1]
     /\ \/ StrLess(x[2], y[2])
        \/ x[2] = y[2] /\ StrLess(x[3], y[3])

FirstSorted(S) == CHOOSE x \in S : \A y \in S \ {x} : TupleLess(x, y)

\* A greedy pass that never takes a pair off the two sets.
RECURSIVE GreedyMatchKeepItems(_, _, _, _, _)
GreedyMatchKeepItems(cands, menu_items, proposal_items, matched, fuzzy) ==
  IF cands = {}
  THEN [matched_items |-> matched, fuzzy_matches |-> fuzzy]
  ELSE LET t == FirstSorted(cands)
       IN GreedyMatchKeepItems(cands \ {t}, menu_items, proposal_items,
            matched \cup {t[2]},
            Append(fuzzy, <<t[1], t[3], t[2]>>))

\* The loop over sorted(fuzzy_distances) of filter_valid_proposal_items.
RECURSIVE GreedyMatch(_, _, _, _, _)
GreedyMatch(cands, menu_items, proposal_items, matched, fuzzy) ==
  IF cands = {}
  THEN [matched_items |-> matched, fuzzy_matches |-> fuzzy]
  ELSE LET t == FirstSorted(cands)
       IN IF t[2] \in menu_items /\ t[3] \in proposal_items
          THEN GreedyMatch(cands \ {t}, menu_items \ {t[2]},
                 proposal_items \ {t[3]}, matched \cup {t[2]},
                 Append(fuzzy, <<t[1], t[3], t[2]>>))
          ELSE GreedyMatch(cands \ {t}, menu_items, proposal_items,
                 matched, fuzzy)

ItemNames(proposal) ==
  {proposal.items[i].item_name : i \in 1..Len(proposal.items)}

FilterValidProposalItems(business_agent_id, proposal) ==
  LET menu_items == DOMAIN business_agents[business_agent_id].menu_features
      proposal_items == ItemNames(proposal)
      matched_items == proposal_items \cap menu_items
  IN IF fuzzy_match_distance > 0
     THEN GreedyMatch(
            FuzzyDistances(menu_items \ matched_items,
                           proposal_items \ matched_items),
            menu_items \ matched_items, proposal_items \ matched_items,
            matched_items, <<>>)
     ELSE [matched_items |-> matched_items, fuzzy_matches |-> <<>>]

CheckAmenityMatch(customer_agent_id, business_agent_id) ==
  IF \/ customer_agent_id \notin DOMAIN customer_agents
     \/ business_agent_id \notin DOMAIN business_agents
  THEN FALSE
  ELSE LET required_amenities ==
             customer_agents[customer_agent_id].amenity_features
           features == business_agents[business_agent_id].amenity_features
           available_amenities == {a \in DOMAIN features : features[a]}
       IN required_amenities \subseteq available_amenities

\* --------------------------------------------------- proposal validity
PairLess(x, y) ==
  x[1] < y[1] \/ (x[1] = y[1] /\ StrLess(x[2], y[2]))

\* The menu item that sorts last in item_distances.
FarthestMenuItem(item_name, business_menu) ==
  LET item_distances ==
        {<<LevenshteinDistance(Lower(item_name), Lower(m)), m>> :
           m \in DOMAIN business_menu}
  IN CHOOSE x \in item_distances :
       \A y \in item_distances \ {x} : PairLess(y, x)

\* sorted(item_distances)[0]
ClosestMenuItem(item_name, business_menu) ==
  LET item_distances ==
        {<<LevenshteinDistance(Lower(item_name), Lower(m)), m>> :
           m \in DOMAIN business_menu}
  IN CHOOSE x \in item_distances :
       \A y \in item_distances \ {x} : PairLess(x, y)

\* The loop over proposal.items of check_proposal_errors, from item i on.
RECURSIVE CheckProposalItems(_, _, _, _, _, _)
CheckProposalItems(proposal, business_id, customer_id, i, total, errors) ==
  IF i > Len(proposal.items)
  THEN [proposed_total |-> total, errors |-> errors]
  ELSE
    LET item == proposal.items[i]
        business_menu == business_agents[business_id].menu_features
        closest == ClosestMenuItem(item.item_name, business_menu)
        found ==
          IF item.item_name \notin DOMAIN business_menu
          THEN <<[kind |-> "InvalidMenuItem",
                  proposal_id |-> proposal.id,
                  business_agent_id |-> business_id,
                  customer_agent_id |-> customer_id,
                  proposed_menu_item |-> item.item_name,
                  closest_menu_item |-> closest[2],
                  closest_menu_item_distance |-> closest[1]]>>
          ELSE IF item.unit_price # business_menu[item.item_name]
          THEN <<[kind |-> "InvalidMenuItemPrice",
                  proposal_id |-> proposal.id,
                  business_agent_id |-> business_id,
                  customer_agent_id |-> customer_id,
                  menu_item |-> item.item_name,
                  proposed_price |-> item.unit_price,
                  actual_price |-> business_menu[item.item_name]]>>
          ELSE <<>>
    IN CheckProposalItems(proposal, business_id, customer_id,
         i + 1, total + item.unit_price * item.quantity,
         errors \o found)

CheckProposalErrors(proposal, business_agent_id, customer_agent_id) ==
  LET ids == [proposal_id |-> proposal.id,
              business_agent_id |-> business_agent_id,
              customer_agent_id |-> customer_agent_id]
      no_business ==
        IF business_agent_id \notin DOMAIN business_agents
        THEN <<[kind |-> "InvalidBusiness"] @@ ids>> ELSE <<>>
      no_customer ==
        IF customer_agent_id \notin DOMAIN customer_agents
        THEN <<[kind |-> "InvalidCustomer"] @@ ids>> ELSE <<>>
      checked == CheckProposalItems(proposal, business_agent_id,
                   customer_agent_id, 1, 0, no_business \o no_customer)
  IN IF business_agent_id \notin DOMAIN business_agents
     THEN no_business \o no_customer
     ELSE IF proposal.total_price # checked.proposed_total
     THEN Append(checked.errors,
            [kind |-> "InvalidTotalPrice",
             proposed_total_price |-> proposal.total_price,
             calculated_total_price |-> checked.proposed_total] @@ ids)
     ELSE checked.errors

\* ------------------------------------------------------------- replay
GetAgentType(agent_id) ==
  IF agent_id \in DOMAIN customer_agents THEN "customer"
  ELSE IF agent_id \in DOMAIN business_agents THEN "business"
  ELSE "unknown"

SetMin(S) == CHOOSE x \in S : \A y \in S : x <= y

\* business_messages[from].append(message) on the ordered dict
AppendBusinessMessage(dict, from_agent_id, message) ==
  LET at == {k \in 1..Len(dict) : dict[k].agent_id = from_agent_id}
  IN IF at = {}
     THEN Append(dict, [agent_id |-> from_agent_id,
                        messages |-> <<message>>])
     ELSE [dict EXCEPT ![SetMin(at)].messages = Append(@, message)]

\* _process_send_message without the test of result.is_error.
ProcessSendMessageAnyResult(action, result, agent_type) ==
  LET message == action.message
      errors == CheckProposalErrors(message, action.from_agent_id,
                                    action.to_agent_id)
  IN
    /\ business_messages' =
         IF agent_type = "business"
         THEN AppendBusinessMessage(business_messages, action.from_agent_id,
                                    message)
         ELSE business_messages
    /\ invalid_proposals' =
         IF message.type = "order_proposal" /\ errors # <<>>
         THEN [invalid_proposals EXCEPT ![message.id] = errors]
         ELSE invalid_proposals
    /\ customer_orders' =
         IF /\ message.type = "order_proposal"
            /\ agent_type = "business"
            /\ action.to_agent_id \in DOMAIN customer_agents
         THEN [customer_orders EXCEPT ![action.to_agent_id] =
                 Append(@, message)]
         ELSE customer_orders
    /\ customer_payments' =
         IF message.type = "payment" /\ agent_type = "customer"
         THEN [customer_payments EXCEPT ![action.from_agent_id] =
                 Append(@, message)]
         ELSE customer_payments

\* _process_send_message(action, result, agent_type)
ProcessSendMessage(action, result, agent_type) ==
  LET message == action.message
      errors == CheckProposalErrors(message, action.from_agent_id,
                                    action.to_agent_id)
  IN
  IF result.is_error
  THEN UNCHANGED <<business_messages, customer_orders, customer_payments,
                   invalid_proposals>>
  ELSE
    /\ business_messages' =
         IF agent_type = "business"
         THEN AppendBusinessMessage(business_messages, action.from_agent_id,
                                    message)
         ELSE business_messages
    /\ invalid_proposals' =
         IF message.type = "order_proposal" /\ errors # <<>>
         THEN [invalid_proposals EXCEPT ![message.id] = errors]
         ELSE invalid_proposals
    /\ customer_orders' =
         IF /\ message.type = "order_proposal"
            /\ agent_type = "business"
            /\ action.to_agent_id \in DOMAIN customer_agents
         THEN [customer_orders EXCEPT ![action.to_agent_id] =
                 Append(@, message)]
         ELSE customer_orders
    /\ customer_payments' =
         IF message.type = "payment" /\ agent_type = "customer"
         THEN [customer_payments EXCEPT ![action.from_agent_id] =
                 Append(@, message)]
         ELSE customer_payments

\* ------------------------------------------------------------ utility
NoMessage == [type |-> "none", id |-> NoId]

\* next((p for p in proposals_received if p.id == id), None)
FirstProposalWithId(proposals_received, id) ==
  LET at == {i \in 1..Len(proposals_received) : proposals_received[i].id = id}
  IN IF at = {} THEN NoMessage ELSE proposals_received[SetMin(at)]

FindBusinessForProposal(proposal_id) ==
  LET at == {k \in 1..Len(business_messages) :
               \E i \in 1..Len(business_messages[k].messages) :
                 LET msg == business_messages[k].messages[i]
                 IN msg.type = "order_proposal" /\ msg.id = proposal_id}
  IN IF at = {} THEN NoId ELSE business_messages[SetMin(at)].agent_id

SumOver(f) ==
  LET RECURSIVE Sum(_)
      Sum(S) == IF S = {} THEN 0
                ELSE LET x == CHOOSE x \in S : TRUE
                     IN f[x] + Sum(S \ {x})
  IN Sum(DOMAIN f)

\* The loop over payments of calculate_customer_utility, from payment i on.
RECURSIVE UtilityLoop(_, _, _, _)
UtilityLoop(customer_agent_id, payments, i, acc) ==
  IF i > Len(payments) THEN acc
  ELSE
    LET customer == customer_agents[customer_agent_id]
        proposal == FirstProposalWithId(customer_orders[customer_agent_id],
                                        payments[i].proposal_message_id)
        business_agent_id == FindBusinessForProposal(proposal.id)
        filtered == FilterValidProposalItems(business_agent_id, proposal)
        met == /\ DOMAIN customer.menu_features \subseteq
                    filtered.matched_items
               /\ CheckAmenityMatch(customer_agent_id, business_agent_id)
    IN IF proposal = NoMessage \/ business_agent_id = NoId
       THEN UtilityLoop(customer_agent_id, payments, i + 1, acc)
       ELSE UtilityLoop(customer_agent_id, payments, i + 1,
              [total_payments |-> acc.total_payments + proposal.total_price,
               needs_met |-> acc.needs_met \/ met,
               filters |-> Append(acc.filters,
                            [business_agent_id |-> business_agent_id,
                             proposal |-> proposal,
                             returned |-> filtered])])

\* calculate_customer_utility; prices are whole amounts, which round(_, 2)
\* leaves as they are.
CalculateCustomerUtility(customer_agent_id) ==
  IF customer_agent_id \notin DOMAIN customer_agents
  THEN [utility |-> 0, needs_met |-> FALSE, filters |-> <<>>]
  ELSE
    LET customer == customer_agents[customer_agent_id]
        done == UtilityLoop(customer_agent_id,
                  customer_payments[customer_agent_id], 1,
                  [total_payments |-> 0, needs_met |-> FALSE,
                   filters |-> <<>>])
        match_score == IF done.needs_met
                       THEN 2 * SumOver(customer.menu_features) ELSE 0
    IN [utility |-> match_score - done.total_payments,
        needs_met |-> done.needs_met,
        filters |-> done.filters]

\* ------------------------------------------------- analytics: inputs
MaxFuzzyDistance == 2
MaxReplayRows == 3

AnalyticsBusinesses == {"b1", "b2"}

MenuA == (taco :> 10) @@ (burrito :> 15)
MenuB == (taco :> 10) @@ (Taco :> 10)

BusinessProfile(menu, wifi) ==
  [menu_features |-> menu, amenity_features |-> [a \in {"wifi"} |-> wifi]]

\* c1 wants a taco and a burrito and needs wifi; c2 wants a taco.
CustomerProfiles ==
  ("c1" :> [menu_features |-> MenuA, amenity_features |-> {"wifi"}])
  @@ ("c2" :> [menu_features |-> (taco :> 10), amenity_features |-> {}])

OrderItem(name) ==
  [item_name |-> name, quantity |-> 1,
   unit_price |-> IF name[1] = "b" THEN 15 ELSE 10]

OrderProposal(id, names, total_price) ==
  [type |-> "order_proposal", id |-> id,
   items |-> [i \in 1..Len(names) |-> OrderItem(names[i])],
   total_price |-> total_price]

Payment(proposal_message_id) ==
  [type |-> "payment", proposal_message_id |-> proposal_message_id]

LoggedRow(from, to, message, is_error) ==
  [action |-> [from_agent_id |-> from, to_agent_id |-> to,
               message |-> message],
   result |-> [is_error |-> is_error]]

\* The item lists b1 proposes.
B1ItemLists ==
  {<<taco, burrito>>, <<tako, burrito>>, <<tako, Taco>>, <<taco, buritto>>}

\* An accepted proposal with this id from this business is in the log.
ProposalLogged(log, business_id, proposal_id) ==
  \E k \in 1..Len(log) :
    /\ ~log[k].result.is_error
    /\ log[k].action.from_agent_id = business_id
    /\ log[k].action.message.type = "order_proposal"
    /\ log[k].action.message.id = proposal_id

\* The rows the marketplace can have logged after log: proposals of b1 and
\* b2 to c1, and payments of c1, which the protocol logged as errors unless
\* the paid business had sent a proposal with that id.
NextLoggedRows(log) ==
  {LoggedRow("b1", "c1", OrderProposal("p1", names, 25), FALSE) :
     names \in B1ItemLists}
  \cup {LoggedRow("b2", "c1", OrderProposal(p, <<taco, burrito>>, 20), FALSE) :
          p \in ProposalIds}
  \cup {LoggedRow("c1", b, Payment(p), ~ProposalLogged(log, b, p)) :
          b \in AnalyticsBusinesses, p \in ProposalIds}

\* ------------------------------------------------ analytics: actions
\* MarketplaceAnalytics(db, fuzzy_match_distance) and load_data()
LoadData(distance, menu, wifi) ==
  /\ analytics_pc = "new"
  /\ analytics_pc' = "loaded"
  /\ fuzzy_match_distance' = distance
  /\ business_agents' = ("b1" :> BusinessProfile(menu, wifi))
                        @@ ("b2" :> BusinessProfile(MenuA, TRUE))
  /\ customer_agents' = CustomerProfiles
  /\ UNCHANGED <<replayed, business_messages, customer_orders,
                 customer_payments, invalid_proposals, utility,
                 filter_calls>>

\* One turn of the loop of analyze_actions: _process_action_row(row)
ProcessActionRow(row, max) ==
  /\ analytics_pc = "loaded"
  /\ Len(replayed) < max
  /\ replayed' = Append(replayed, row)
  /\ ProcessSendMessage(row.action, row.result,
                        GetAgentType(row.action.from_agent_id))
  /\ UNCHANGED <<analytics_pc, fuzzy_match_distance, business_agents,
                 customer_agents, utility, filter_calls>>

\* analyze_actions returns
FinishAnalysis ==
  /\ analytics_pc = "loaded"
  /\ analytics_pc' = "analyzed"
  /\ UNCHANGED <<fuzzy_match_distance, business_agents, customer_agents,
                 replayed, business_messages, customer_orders,
                 customer_payments, invalid_proposals, utility,
                 filter_calls>>

\* calculate_customer_utility(customer_agent_id) is called
CustomerUtilityCall(customer_agent_id) ==
  /\ analytics_pc = "analyzed"
  /\ utility[customer_agent_id] = <<>>
  /\ LET returned == CalculateCustomerUtility(customer_agent_id)
     IN /\ utility' = [utility EXCEPT ![customer_agent_id] =
                         [utility |-> returned.utility,
                          needs_met |-> returned.needs_met]]
        /\ filter_calls' = [filter_calls EXCEPT
                                 ![customer_agent_id] = returned.filters]
  /\ UNCHANGED <<analytics_pc, fuzzy_match_distance, business_agents,
                 customer_agents, replayed, business_messages,
                 customer_orders, customer_payments, invalid_proposals>>

AnalyticsStep ==
  \/ \E d \in 0..MaxFuzzyDistance, menu \in {MenuA, MenuB}, wifi \in BOOLEAN :
       LoadData(d, menu, wifi)
  \/ \E row \in NextLoggedRows(replayed) :
       ProcessActionRow(row, MaxReplayRows)
  \/ FinishAnalysis
  \/ \E c \in Customers : CustomerUtilityCall(c)

AnalyticsNext ==
  AnalyticsStep /\ UNCHANGED <<marketVars, lifeVars, convertVars, verifyVars,
                             auditVars, extraVars>>

SpecAnalytics == Init /\ [][AnalyticsNext]_vars

\* ------------------------------------- proposals checked one at a time
MaxCheckedRows == 1

AllItemNames == {taco, tako, Taco, burrito, buritto}

\* Proposals of b1 to c1 with one or two items.
CheckedRows ==
  {LoggedRow("b1", "c1", OrderProposal("p1", <<a>>, 25), FALSE) :
     a \in AllItemNames}
  \cup {LoggedRow("b1", "c1", OrderProposal("p1", pair, 25), FALSE) :
          pair \in {x \in AllItemNames \X AllItemNames : StrLess(x[1], x[2])}}

\* A menu for every non-empty set of these names.
CheckedMenus ==
  {[name \in names |-> IF name[1] = "b" THEN 15 ELSE 10] :
     names \in (SUBSET {taco, Taco, burrito}) \ {{}}}

\* filter_valid_proposal_items(business_agent_id, proposal) is called for
\* the proposal of row k.
FilterValidProposalItemsCall(k) ==
  LET action == replayed[k].action
  IN /\ analytics_pc = "loaded"
     /\ action.message.type = "order_proposal"
     /\ filter_calls[action.to_agent_id] = <<>>
     /\ filter_calls' = [filter_calls EXCEPT ![action.to_agent_id] =
          <<[business_agent_id |-> action.from_agent_id,
             proposal |-> action.message,
             returned |-> FilterValidProposalItems(action.from_agent_id,
                                                   action.message)]>>]
     /\ UNCHANGED <<analytics_pc, fuzzy_match_distance, business_agents,
                    customer_agents, replayed, business_messages,
                    customer_orders, customer_payments, invalid_proposals,
                    utility>>

ProposalsStep ==
  \/ \E d \in 0..MaxFuzzyDistance, menu \in CheckedMenus :
       LoadData(d, menu, TRUE)
  \/ \E row \in CheckedRows : ProcessActionRow(row, MaxCheckedRows)
  \/ \E k \in 1..Len(replayed) : FilterValidProposalItemsCall(k)

ProposalsNext ==
  ProposalsStep /\ UNCHANGED <<marketVars, lifeVars, convertVars, verifyVars,
                             auditVars, extraVars>>

SpecProposals == Init /\ [][ProposalsNext]_vars

\* =================================================================
\* Database export: platform/database/converter.py
\* =================================================================
MaxSourceRows == 3
MaxVerifyRows == 2
MaxRowIndex == 3

Tables == {"agents", "actions", "logs"}
RowIds == {"x", "y", "z"}

\* A table row as the converter sees it: Row.id and Row.index (created_at
\* and data are copied unchanged and never compared).
Row(id, index) == [id |-> id, index |-> index]

\* A table is the set of its rows; get_all returns them as a list in an
\* order the caller does not control.
GetAll(table) ==
  {rows \in [1..Cardinality(table) -> table] :
     \A i, j \in 1..Cardinality(table) : i # j => rows[i] # rows[j]}

\* The index a table assigns to its next row: one past the largest so far.
NextRowIndex(table) ==
  IF table = {} THEN 1 ELSE SetMax({r.index : r \in table}) + 1

\* create_many: the rows are inserted in list order, the table assigning
\* each its index (the rows handed over carry none).
CreateMany(table, items) ==
  table \cup {Row(items[k].id, NextRowIndex(table) + k - 1) :
                k \in 1..Len(items)}

\* list.sort(key=lambda r: r.index if r.index is not None else 0): a stable
\* sort, written as insertion of each row behind the rows whose key is not
\* greater.  Rows read from a table always carry an index.
InsertByIndex(sorted, row) ==
  LET before == Cardinality({k \in 1..Len(sorted) :
                               sorted[k].index <= row.index})
  IN SubSeq(sorted, 1, before) \o <<row>>
       \o SubSeq(sorted, before + 1, Len(sorted))

RECURSIVE SortByIndexFrom(_, _, _)
SortByIndexFrom(rows, i, sorted) ==
  IF i > Len(rows) THEN sorted
  ELSE SortByIndexFrom(rows, i + 1, InsertByIndex(sorted, rows[i]))

SortByIndex(rows) == SortByIndexFrom(rows, 1, <<>>)

\* _copy_agents / _copy_actions / _copy_logs: the rows sorted by index,
\* rebuilt from id, created_at and data only.
CopyRows(rows) ==
  LET sorted == SortByIndex(rows)
  IN [k \in 1..Len(sorted) |-> [id |-> sorted[k].id]]

\* The first pair of the zipped lists that makes _verify_table raise, with
\* the error raised there.
RECURSIVE VerifyRows(_, _, _)
VerifyRows(source_rows, target_rows, k) ==
  IF k > Len(source_rows) THEN "ok"
  ELSE IF source_rows[k].index # target_rows[k].index
       THEN "Index mismatch"
  ELSE IF source_rows[k].id # target_rows[k].id THEN "ID mismatch"
  ELSE VerifyRows(source_rows, target_rows, k + 1)

\* Mutant: only the row counts are compared.
VerifyTableCountOnly(source_rows, target_rows) ==
  IF Len(source_rows) # Len(target_rows) THEN "Row count mismatch" ELSE "ok"

\* Mutant: the indexes are compared, the ids are not.
VerifyTableSkipIds(source_rows, target_rows) ==
  IF Len(source_rows) # Len(target_rows) THEN "Row count mismatch"
  ELSE IF \E k \in 1..Len(source_rows) :
            SortByIndex(source_rows)[k].index
              # SortByIndex(target_rows)[k].index
       THEN "Index mismatch"
  ELSE "ok"

\* _verify_table: "ok" when it returns, otherwise the ValueError raised.
VerifyTable(source_rows, target_rows) ==
  IF Len(source_rows) # Len(target_rows) THEN "Row count mismatch"
  ELSE VerifyRows(SortByIndex(source_rows), SortByIndex(target_rows), 1)

\* ------------------------------------------------------ conversion steps
SourceRowCount ==
  Cardinality(source_db["agents"]) + Cardinality(source_db["actions"])
    + Cardinality(source_db["logs"])

\* A row written to the durable database before the export starts; the
\* index comes from the table's sequence, which may skip a value.
CreateSourceRow(t, id, skipped) ==
  /\ convert_pc = "idle"
  /\ SourceRowCount < MaxSourceRows
  /\ \A r \in source_db[t] : r.id # id
  /\ source_db' = [source_db EXCEPT
                     ![t] = @ \cup {Row(id, NextRowIndex(@) + skipped)}]
  /\ UNCHANGED <<target_db, convert_pc>>

\* One of the three copies of convert(), in their order.
CopyTable(t, from_pc, to_pc) ==
  /\ convert_pc = from_pc
  /\ \E rows \in GetAll(source_db[t]) :
       target_db' = [target_db EXCEPT ![t] = CreateMany(@, CopyRows(rows))]
  /\ convert_pc' = to_pc
  /\ UNCHANGED source_db

CopyAgents == CopyTable("agents", "idle", "agents_copied")

CopyActionRows == CopyTable("actions", "agents_copied", "actions_copied")

CopyLogs == CopyTable("logs", "actions_copied", "logs_copied")

\* _verify_conversion: agents, actions, logs in turn; the first failed
\* table raises out of convert(), otherwise convert() returns the path.
VerifyConversion ==
  /\ convert_pc = "logs_copied"
  /\ \E sa \in GetAll(source_db["agents"]), ta \in GetAll(target_db["agents"]),
        sc \in GetAll(source_db["actions"]), tc \in GetAll(target_db["actions"]),
        sl \in GetAll(source_db["logs"]), tl \in GetAll(target_db["logs"]) :
       convert_pc' =
         IF /\ VerifyTable(sa, ta) = "ok"
            /\ VerifyTable(sc, tc) = "ok"
            /\ VerifyTable(sl, tl) = "ok"
         THEN "done" ELSE "raised"
  /\ UNCHANGED <<source_db, target_db>>

ConvertStep ==
  \/ \E t \in Tables, id \in RowIds, skipped \in {0, 1} :
       CreateSourceRow(t, id, skipped)
  \/ CopyAgents
  \/ CopyActionRows
  \/ CopyLogs
  \/ VerifyConversion

ConvertNext ==
  ConvertStep /\ UNCHANGED <<marketVars, lifeVars, analyticsVars, verifyVars,
                           auditVars, extraVars>>

SpecConverter == Init /\ [][ConvertNext]_vars

\* The write of a log row that was in flight when convert() was called
\* (the logger does not await its writes) is committed to the durable
\* database while the conversion runs.
LogWriteLands(id) ==
  /\ convert_pc \in {"agents_copied", "actions_copied", "logs_copied"}
  /\ SourceRowCount < MaxSourceRows
  /\ \A r \in source_db["logs"] : r.id # id
  /\ source_db' = [source_db EXCEPT
                     !["logs"] = @ \cup {Row(id, NextRowIndex(@))}]
  /\ UNCHANGED <<target_db, convert_pc>>

\* The export at the end of run_marketplace_experiment: the rows of the
\* experiment are in the database, indexes without gaps; the server is up
\* and log writes may be pending.
ExportStep ==
  \/ \E t \in Tables, id \in RowIds : CreateSourceRow(t, id, 0)
  \/ \E id \in RowIds : LogWriteLands(id)
  \/ CopyAgents
  \/ CopyActionRows
  \/ CopyLogs
  \/ VerifyConversion

ExportNext ==
  ExportStep /\ UNCHANGED <<marketVars, lifeVars, analyticsVars, verifyVars,
                          auditVars, extraVars>>

SpecExport == Init /\ [][ExportNext]_vars

\* ------------------------------------------------- verification alone
\* The row lists _verify_table can be handed: rows of one table, so with
\* pairwise different indexes, in any order.
RowLists ==
  UNION {{rows \in [1..n -> {Row(id, index) : id \in {"x", "y"},
                                              index \in 1..MaxRowIndex}] :
            \A i, j \in 1..n : i # j => rows[i].index # rows[j].index} :
         n \in 0..MaxVerifyRows}

VerifyTableCall(source_rows, target_rows) ==
  /\ verify_args' = <<source_rows, target_rows>>
  /\ verify_returned' = VerifyTable(source_rows, target_rows)

\* One call on each pair of lists.
VerifyStep ==
  /\ verify_returned = "none"
  /\ \E source_rows \in RowLists, target_rows \in RowLists :
       VerifyTableCall(source_rows, target_rows)

VerifyNext ==
  VerifyStep /\ UNCHANGED <<marketVars, lifeVars, analyticsVars, convertVars,
                          auditVars, extraVars>>

SpecVerify == Init /\ [][VerifyNext]_vars

\* =================================================================
\* Audit (experiments/run_audit.py)
\* =================================================================
MaxAuditRows == 2
MaxLlmLogs == 2

\* Python's `s in text` on strings.
Contains(text, s) ==
  \E i \in 0..(Len(text) - Len(s)) : SubSeq(text, i + 1, i + Len(s)) = s

\* json.dumps of a string: quotes and backslashes are escaped, and (with
\* ensure_ascii) a character outside ASCII becomes its \uXXXX escape.
RECURSIVE JsonEscape(_)
JsonEscape(text) ==
  IF text = <<>> THEN <<>>
  ELSE (CASE Head(text) = "\"" -> <<"\\", "\"">>
          [] Head(text) = "\\" -> <<"\\", "\\">>
          [] Head(text) = "é" -> <<"\\", "u", "0", "0", "e", "9">>
          [] OTHER -> <<Head(text)>>)
       \o JsonEscape(Tail(text))

\* json.dumps of a response object with one string field.
JsonDumps(response) ==
  <<"{", "\"">> \o JsonEscape(response.key) \o <<"\"", ":", " ", "\"">>
    \o JsonEscape(response.value) \o <<"\"", "}">>

\* LLMCallLog.prompt is a string or a list of messages with a content;
\* LLMCallLog.response is a string or an object.
StrPrompt(text) == [is_str |-> TRUE, text |-> text, messages |-> <<>>]

MessagesPrompt(contents) ==
  [is_str |-> FALSE, text |-> <<>>, messages |-> contents]

StrResponse(text) ==
  [is_str |-> TRUE, text |-> text, key |-> <<>>, value |-> <<>>]

ObjectResponse(key, value) ==
  [is_str |-> FALSE, text |-> <<>>, key |-> key, value |-> value]

LLMCallLog(prompt, response) == [prompt |-> prompt, response |-> response]

\* check_proposal_in_log
CheckProposalInLog(proposal_id, llm_log) ==
  \/ IF llm_log.prompt.is_str
     THEN Contains(llm_log.prompt.text, proposal_id)
     ELSE \E k \in 1..Len(llm_log.prompt.messages) :
            Contains(llm_log.prompt.messages[k], proposal_id)
  \/ IF llm_log.response.is_str
     THEN Contains(llm_log.response.text, proposal_id)
     ELSE Contains(JsonDumps(llm_log.response), proposal_id)

\* get_last_llm_log_for_customer: the log of the customer with the largest
\* index, <<>> when the customer has none.  logs is in index order.
GetLastLlmLogForCustomer(logs, customer_id) ==
  LET mine == {k \in 1..Len(logs) : logs[k].agent_id = customer_id}
  IN IF mine = {} THEN <<>> ELSE <<logs[SetMax(mine)].log>>

\* _process_send_message of the audit, for an action row of the log: a
\* proposal that was sent without error is appended to order_proposals and
\* its sender and recipient are stored under its id.
AuditProcessSendMessage(row, proposals, metadata) ==
  IF row.result.is_error \/ row.action.message.type # "order_proposal"
  THEN [order_proposals |-> proposals, proposal_metadata |-> metadata]
  ELSE [order_proposals |-> Append(proposals, row.action.message),
        proposal_metadata |->
          [metadata EXCEPT ![row.action.message.id] =
             [business_id |-> row.action.from_agent_id,
              customer_id |-> row.action.to_agent_id]]]

NoAuditResults ==
  [total_proposals |-> 0, proposals_found |-> 0, proposals_missing |-> 0,
   missing_details |-> <<>>]

MissingDetail(proposal_id, metadata, reason) ==
  [proposal_id |-> proposal_id, business_id |-> metadata.business_id,
   customer_id |-> metadata.customer_id, reason |-> reason]

\* The loop of audit_proposals over order_proposals[i..].
RECURSIVE AuditProposalsLoop(_, _, _, _, _)
AuditProposalsLoop(proposals, metadata, logs, i, results) ==
  IF i > Len(proposals) THEN results
  ELSE
    LET proposal_id == proposals[i].id
        meta == metadata[proposal_id]
        llm_log_result == GetLastLlmLogForCustomer(logs, meta.customer_id)
        reason ==
          IF llm_log_result = <<>> THEN "No LLM logs found"
          ELSE "Proposal ID not found in last LLM log"
        found ==
          /\ llm_log_result # <<>>
          /\ CheckProposalInLog(proposal_id, llm_log_result[1])
    IN IF meta = NoMetadata
       THEN AuditProposalsLoop(proposals, metadata, logs, i + 1, results)
       ELSE IF found
       THEN AuditProposalsLoop(proposals, metadata, logs, i + 1,
              [results EXCEPT !.proposals_found = @ + 1])
       ELSE AuditProposalsLoop(proposals, metadata, logs, i + 1,
              [results EXCEPT
                 !.proposals_missing = @ + 1,
                 !.missing_details =
                    Append(@, MissingDetail(proposal_id, meta, reason))])

\* audit_proposals, the proposal part of its result.
AuditProposalsResult(proposals, metadata, logs) ==
  AuditProposalsLoop(proposals, metadata, logs, 1,
                     [NoAuditResults EXCEPT
                        !.total_proposals = Len(proposals)])

\* ------------------------------------------------------- audit inputs
see_p1 == <<"s", "e", "e", " ", "p", "1">>

LlmLogChoices ==
  {LLMCallLog(StrPrompt(see_p1), StrResponse(<<"o", "k">>)),
   LLMCallLog(MessagesPrompt(<<<<"p">>, <<"1">>>>), StrResponse(<<"p">>)),
   LLMCallLog(MessagesPrompt(<<<<"h", "i">>>>),
              ObjectResponse(<<"i", "d">>, pid2)),
   LLMCallLog(StrPrompt(<<"2">>), ObjectResponse(<<"p">>, <<"é", "1">>))}

\* The proposal rows of an audited log: proposals of b1 to a customer, and
\* one that the server rejected.
AuditedRows ==
  {LoggedRow("b1", c, [type |-> "order_proposal", id |-> p], FALSE) :
     c \in Customers, p \in AuditProposalIds}
  \cup {LoggedRow("b1", "c1", [type |-> "order_proposal", id |-> pid1], TRUE)}

\* ------------------------------------------------------- audit actions
\* A decision of a customer was logged during the experiment.
LlmCallLogged(customer_id, log) ==
  /\ audit_pc = "new"
  /\ Len(llm_logs) < MaxLlmLogs
  /\ llm_logs' = Append(llm_logs, [agent_id |-> customer_id, log |-> log])
  /\ UNCHANGED <<audit_pc, audit_rows, order_proposals, proposal_metadata,
                 audit_results>>

\* load_data of the audit, one action row: _process_action_row.
AuditProcessActionRow(row) ==
  /\ audit_pc = "new"
  /\ Len(audit_rows) < MaxAuditRows
  /\ audit_rows' = Append(audit_rows, row)
  /\ LET r == AuditProcessSendMessage(row, order_proposals, proposal_metadata)
     IN /\ order_proposals' = r.order_proposals
        /\ proposal_metadata' = r.proposal_metadata
  /\ UNCHANGED <<audit_pc, llm_logs, audit_results>>

\* audit_proposals
AuditProposals ==
  /\ audit_pc = "new"
  /\ audit_pc' = "audited"
  /\ audit_results' =
       AuditProposalsResult(order_proposals, proposal_metadata, llm_logs)
  /\ UNCHANGED <<audit_rows, order_proposals, proposal_metadata, llm_logs>>

AuditStep ==
  \/ \E c \in Customers, log \in LlmLogChoices : LlmCallLogged(c, log)
  \/ \E row \in AuditedRows : AuditProcessActionRow(row)
  \/ AuditProposals

AuditNext ==
  AuditStep /\ UNCHANGED <<marketVars, lifeVars, analyticsVars, convertVars,
                           verifyVars, extraVars>>

SpecAudit == Init /\ [][AuditNext]_vars

\* ------------------------------------- the audit's customer utility
\* What load_data of the audit has stored after the action rows of log;
\* the ids of customer agents hold "customer", those of others do not.
\* customer_proposals[customer_agent_id]
AuditCustomerProposals(log, customer_agent_id) ==
  LET rows == SelectSeq(log, LAMBDA r :
                /\ ~r.result.is_error
                /\ r.action.message.type = "order_proposal"
                /\ r.action.to_agent_id = customer_agent_id)
  IN [k \in 1..Len(rows) |-> rows[k].action.message]

\* customer_payments[customer_agent_id]
AuditCustomerPayments(log, customer_agent_id) ==
  LET rows == SelectSeq(log, LAMBDA r :
                /\ ~r.result.is_error
                /\ r.action.message.type = "payment"
                /\ r.action.from_agent_id \in Customers
                /\ r.action.from_agent_id = customer_agent_id)
  IN [k \in 1..Len(rows) |-> rows[k].action.message]

\* _find_business_for_proposal of the audit: proposal_metadata holds the
\* sender of the last proposal sent with the id.
AuditFindBusinessForProposal(log, proposal_id) ==
  LET at == {k \in 1..Len(log) :
               /\ ~log[k].result.is_error
               /\ log[k].action.message.type = "order_proposal"
               /\ log[k].action.message.id = proposal_id}
  IN IF at = {} THEN NoId ELSE log[SetMax(at)].action.from_agent_id

\* The loop over payments of the audit's calculate_customer_utility.
RECURSIVE AuditUtilityLoop(_, _, _, _, _)
AuditUtilityLoop(log, customer_agent_id, payments, i, acc) ==
  IF i > Len(payments) THEN acc
  ELSE
    LET customer == customer_agents[customer_agent_id]
        proposal ==
          FirstProposalWithId(AuditCustomerProposals(log, customer_agent_id),
                              payments[i].proposal_message_id)
        proposal_items == ItemNames(proposal)
        requested_items == DOMAIN customer.menu_features
        business_agent_id == AuditFindBusinessForProposal(log, proposal.id)
        met == /\ proposal_items = requested_items
               /\ business_agent_id # NoId
               /\ CheckAmenityMatch(customer_agent_id, business_agent_id)
    IN IF proposal = NoMessage
       THEN AuditUtilityLoop(log, customer_agent_id, payments, i + 1, acc)
       ELSE AuditUtilityLoop(log, customer_agent_id, payments, i + 1,
              [total_payments |-> acc.total_payments + proposal.total_price,
               needs_met |-> acc.needs_met \/ met])

\* calculate_customer_utility of the audit, without the optimal utility.
AuditCalculateCustomerUtility(log, customer_agent_id) ==
  IF customer_agent_id \notin DOMAIN customer_agents
  THEN [utility |-> 0, needs_met |-> FALSE]
  ELSE
    LET customer == customer_agents[customer_agent_id]
        done == AuditUtilityLoop(log, customer_agent_id,
                  AuditCustomerPayments(log, customer_agent_id), 1,
                  [total_payments |-> 0, needs_met |-> FALSE])
        match_score == IF done.needs_met
                       THEN 2 * SumOver(customer.menu_features) ELSE 0
    IN [utility |-> match_score - done.total_payments,
        needs_met |-> done.needs_met]

\* The audit, run on the log the analytics replayed, computes the utility
\* of a customer.
AuditUtilityCall(customer_agent_id) ==
  /\ analytics_pc = "analyzed"
  /\ audit_utility[customer_agent_id] = <<>>
  /\ audit_utility' = [audit_utility EXCEPT ![customer_agent_id] =
                         AuditCalculateCustomerUtility(replayed,
                                                       customer_agent_id)]
  /\ UNCHANGED analyticsVars

\* Both engines on the same log.
EnginesStep ==
  \/ AnalyticsStep /\ UNCHANGED audit_utility
  \/ \E c \in Customers : AuditUtilityCall(c)

EnginesNext ==
  EnginesStep /\ UNCHANGED <<marketVars, lifeVars, convertVars, verifyVars,
                           auditVars, decisionVars, loggerVars, llmLogVars,
                           genVars, startVars>>

SpecEngines == Init /\ [][EnginesNext]_vars

\* ------------------------------------------- the logs of decision calls
\* The k-th decision call of a customer as it is logged: the prompt holds
\* the step counter.
Digit(k) == IF k = 1 THEN "1" ELSE IF k = 2 THEN "2" ELSE "3"

DecisionLog(k) == LLMCallLog(StrPrompt(<<Digit(k)>>), StrResponse(<<"o", "k">>))

\* generate_struct of a customer returns: the call was logged with
\* log_metadata agent_id, and the logger created the task of the write
\* without awaiting it.
DecisionCallLogged(c) ==
  /\ llm_calls[c] < MaxDecisionCalls
  /\ llm_calls' = [llm_calls EXCEPT ![c] = @ + 1]
  /\ log_writes' = log_writes \cup {[agent_id |-> c, call |-> llm_calls[c] + 1]}
  /\ UNCHANGED llm_logs

\* _log_to_db: logs.create of a write in flight is committed; the logs
\* table gives the row the next index.
LogWriteCommits(w) ==
  /\ w \in log_writes
  /\ log_writes' = log_writes \ {w}
  /\ llm_logs' = Append(llm_logs, [agent_id |-> w.agent_id,
                                   log |-> DecisionLog(w.call)])
  /\ UNCHANGED llm_calls

\* _log_to_db: logs.create raised; the exception is caught and reported to
\* the Python logger only.
LogWriteFails(w) ==
  /\ w \in log_writes
  /\ log_writes' = log_writes \ {w}
  /\ UNCHANGED <<llm_calls, llm_logs>>

LlmLogsStep ==
  \/ \E c \in Customers : DecisionCallLogged(c)
  \/ \E w \in log_writes : LogWriteCommits(w)
  \/ \E w \in log_writes : LogWriteFails(w)

LlmLogsNext ==
  /\ LlmLogsStep
  /\ UNCHANGED <<marketVars, lifeVars, analyticsVars, convertVars, verifyVars,
                 audit_pc, audit_rows, order_proposals, proposal_metadata,
                 audit_results, decisionVars, loggerVars, lateVars>>

SpecLlmLogs == Init /\ [][LlmLogsNext]_vars

\* =================================================================
\* Structured output with retries (marketplace/llm/clients)
\* =================================================================
MaxPromptMessages == 2
MaxAttempts == 3

\* The methods with a retry loop: OpenAIClient._generate with a
\* response_format, OpenAIClient._generate_struct and
\* AnthropicClient._generate_structured.
GenClients == {"openai_parse", "openai_tool", "anthropic"}

\* A message of the conversation: a message of the prompt (about = 0), or
\* one appended after the response of attempt number about.
Message(kind, about) == [kind |-> kind, about |-> about]

\* What can come back for one request.
\*   openai_parse: a parsed object, a refusal, a message with neither, or
\*                 an exception of the parse call;
\*   openai_tool:  tool arguments that validate or do not, a completion
\*                 without a function tool call, or an exception;
\*   anthropic:    a tool_use block whose input validates or does not, no
\*                 tool_use block, or an exception.
Responses(client) ==
  IF client = "openai_parse"
  THEN {"parsed", "refusal", "neither", "exception"}
  ELSE IF client = "openai_tool"
  THEN {"parsed", "unparsable", "no_tool_call", "exception"}
  ELSE {"parsed", "unparsable", "no_tool_use", "exception"}

\* A call begins with the messages of the prompt; no call is running.
GenerateStruct(client, n) ==
  /\ gen_pc # "running"
  /\ gen_client' = client
  /\ gen_pc' = "running"
  /\ gen_attempts' = 0
  /\ gen_messages' = [k \in 1..n |-> Message("prompt", 0)]
  /\ gen_requests' = <<>>
  /\ gen_responses' = <<>>

\* A loop that goes on after its last turn.
AfterFailedTurnGoesOn == "running"

\* The end of a turn that did not return: the loop goes on, or it is
\* exhausted and the statement after it raises.
AfterFailedTurn == IF gen_attempts' = MaxAttempts THEN "raised" ELSE "running"

\* One turn of the loop of OpenAIClient._generate.
OpenAIParseAttempt(response) ==
  /\ gen_pc = "running"
  /\ gen_client = "openai_parse"
  /\ gen_attempts < MaxAttempts
  /\ gen_attempts' = gen_attempts + 1
  /\ gen_requests' = Append(gen_requests, gen_messages)
  /\ gen_responses' = Append(gen_responses, response)
  /\ gen_messages' =
       IF response \in {"refusal", "exception"}
       THEN Append(gen_messages, Message("error", gen_attempts'))
       ELSE gen_messages
  /\ gen_pc' = IF response = "parsed" THEN "returned"
               ELSE IF response = "neither" THEN "raised"
               ELSE AfterFailedTurn
  /\ UNCHANGED gen_client

\* One turn of the loop of OpenAIClient._generate_struct.
OpenAIToolAttempt(response) ==
  /\ gen_pc = "running"
  /\ gen_client = "openai_tool"
  /\ gen_attempts < MaxAttempts
  /\ gen_attempts' = gen_attempts + 1
  /\ gen_requests' = Append(gen_requests, gen_messages)
  /\ gen_responses' = Append(gen_responses, response)
  /\ gen_messages' =
       IF response = "parsed"
       THEN Append(gen_messages, Message("assistant", gen_attempts'))
       ELSE IF response = "unparsable"
       THEN gen_messages \o <<Message("assistant", gen_attempts'),
                              Message("error", gen_attempts')>>
       ELSE gen_messages
  /\ gen_pc' = IF response = "parsed" THEN "returned"
               ELSE IF response \in {"no_tool_call", "exception"}
               THEN "raised"
               ELSE AfterFailedTurn
  /\ UNCHANGED gen_client

\* One turn of the loop of AnthropicClient._generate_structured.
AnthropicAttempt(response) ==
  /\ gen_pc = "running"
  /\ gen_client = "anthropic"
  /\ gen_attempts < MaxAttempts
  /\ gen_attempts' = gen_attempts + 1
  /\ gen_requests' = Append(gen_requests, gen_messages)
  /\ gen_responses' = Append(gen_responses, response)
  /\ gen_messages' =
       IF response = "parsed" \/ gen_attempts' = MaxAttempts
       THEN gen_messages
       ELSE IF response = "unparsable"
       THEN gen_messages \o <<Message("assistant", gen_attempts'),
                              Message("error", gen_attempts')>>
       ELSE IF response = "no_tool_use"
       THEN gen_messages \o <<Message("assistant", gen_attempts'),
                              Message("hint", gen_attempts')>>
       ELSE Append(gen_messages, Message("error", gen_attempts'))
  /\ gen_pc' = IF response = "parsed" THEN "returned" ELSE AfterFailedTurn
  /\ UNCHANGED gen_client

GenerateStep ==
  \/ \E client \in GenClients, n \in 1..MaxPromptMessages :
       GenerateStruct(client, n)
  \/ \E response \in Responses("openai_parse") : OpenAIParseAttempt(response)
  \/ \E response \in Responses("openai_tool") : OpenAIToolAttempt(response)
  \/ \E response \in Responses("anthropic") : AnthropicAttempt(response)

GenerateNext ==
  GenerateStep /\ UNCHANGED <<marketVars, lifeVars, toolVars, decisionVars,
                            loggerVars, llmLogVars, audit_utility,
                            startVars>>

SpecGenerate == Init /\ [][GenerateNext]_vars

\* =================================================================
\* Waiting for the server (platform/launcher.py start_server)
\* =================================================================
\* Delays are whole numbers of tenths of a second.
MaxRetries == 4
MaxRetryDelay == 2
MaxMaxDelay == 5

Min(a, b) == IF a <= b THEN a ELSE b

\* A delay that doubles without a cap.
NextDelayUncapped(delay, max_delay) == delay * 2

\* current_delay = min(current_delay * 2, max_delay)
NextDelay(delay, max_delay) == Min(delay * 2, max_delay)

\* start_server(max_retries, retry_delay, max_delay) up to its loop; the
\* loop of range(0) has no turn.
StartServer(max_retries, retry_delay, max_delay) ==
  /\ start_pc = "idle"
  /\ start_args' = [max_retries |-> max_retries, retry_delay |-> retry_delay,
                    max_delay |-> max_delay]
  /\ current_delay' = retry_delay
  /\ start_pc' = IF max_retries = 0 THEN "raised" ELSE "checking"
  /\ UNCHANGED <<health_checks, sleeps>>

\* client.health_check() returns: start_server returns.
HealthCheckSucceeds ==
  /\ start_pc = "checking"
  /\ health_checks' = Append(health_checks, "ok")
  /\ start_pc' = "healthy"
  /\ UNCHANGED <<start_args, current_delay, sleeps>>

\* The connection or the health check raises: asyncio.sleep(current_delay)
\* begins.
HealthCheckFails ==
  /\ start_pc = "checking"
  /\ health_checks' = Append(health_checks, "failed")
  /\ sleeps' = Append(sleeps, current_delay)
  /\ start_pc' = "sleeping"
  /\ UNCHANGED <<start_args, current_delay>>

\* The sleep ends: the delay is doubled up to max_delay and the loop takes
\* its next turn, or it is exhausted and RuntimeError is raised.
SleepEnds ==
  /\ start_pc = "sleeping"
  /\ current_delay' = NextDelay(current_delay, start_args.max_delay)
  /\ start_pc' = IF Len(health_checks) = start_args.max_retries
                 THEN "raised" ELSE "checking"
  /\ UNCHANGED <<start_args, health_checks, sleeps>>

\* The callers in the repository pass retry_delay <= max_delay.
StartStep ==
  \/ \E max_retries \in 0..MaxRetries, retry_delay \in 1..MaxRetryDelay :
       \E max_delay \in retry_delay..MaxMaxDelay :
         StartServer(max_retries, retry_delay, max_delay)
  \/ HealthCheckSucceeds
  \/ HealthCheckFails
  \/ SleepEnds

StartNext ==
  StartStep /\ UNCHANGED <<marketVars, lifeVars, toolVars, decisionVars,
                         loggerVars, llmLogVars, audit_utility, genVars>>

SpecStart == Init /\ [][StartNext]_vars

\* =================================================================
\* Properties
\* =================================================================
Range(seq) == {seq[i] : i \in 1..Len(seq)}

Count(seq, x) == Cardinality({i \in 1..Len(seq) : seq[i] = x})

IsPayment(row) == IsSendMessage(row) /\ row.request.mtype = "payment"

IsProposal(row) == IsSendMessage(row) /\ row.request.mtype = "order_proposal"

\* A proposal with the payment's id was sent earlier by the payment's
\* target, to anyone.
ProposalFromTargetBefore(i) ==
  \E j \in 1..(i - 1) :
    /\ IsProposal(actions[j])
    /\ actions[j].request.from_agent_id = actions[i].request.to_agent_id
    /\ actions[j].request.pid = actions[i].request.pid

\* The same, and the proposal was addressed to the payer.
ProposalToPayerBefore(i) ==
  \E j \in 1..(i - 1) :
    /\ IsProposal(actions[j])
    /\ actions[j].request.from_agent_id = actions[i].request.to_agent_id
    /\ actions[j].request.to_agent_id = actions[i].request.from_agent_id
    /\ actions[j].request.pid = actions[i].request.pid

\* C1: for every business and proposal id, at most one payment is honored:
\* the id enters confirmed_orders at most once, at most one payment for it
\* is answered with a confirmation, and every other one with a rejection.
C1_AtMostOnePaymentHonored ==
  \A b \in Businesses, p \in ProposalIds :
    /\ Count(confirmed_orders[b], p) <= 1
    /\ Cardinality({i \in 1..Len(payment_replies[b]) :
                      /\ payment_replies[b][i].pid = p
                      /\ payment_replies[b][i].reply = "payment_confirmation"})
         <= 1

\* C2 as claimed: a Payment is accepted only if the target business sent an
\* OrderProposal with that id to the paying agent before.
C2_PaymentNeedsProposalToPayer ==
  \A i \in 1..Len(actions) :
    (IsPayment(actions[i]) /\ ~actions[i].result.is_error)
      => ProposalToPayerBefore(i)

\* C2 as amended: a Payment is accepted only if its recipient is registered
\* and the recipient sent an OrderProposal with that id before, to whatever
\* recipient; a Payment to a registered recipient that sent no such proposal
\* fails with invalid_proposal.
C2_PaymentNeedsProposalFromTarget ==
  \A i \in 1..Len(actions) :
    IsPayment(actions[i]) =>
      /\ ~actions[i].result.is_error =>
           /\ actions[i].request.to_agent_id \in RegisteredAgents
           /\ ProposalFromTargetBefore(i)
      /\ (/\ actions[i].request.to_agent_id \in RegisteredAgents
          /\ ~ProposalFromTargetBefore(i))
           => /\ actions[i].result.is_error
              /\ actions[i].result.error = "invalid_proposal"

\* An accepted payment for a proposal that was addressed to somebody else,
\* next to a rejected payment.
C2_Witness ==
  /\ \E i \in 1..Len(actions) :
       /\ IsPayment(actions[i])
       /\ ~actions[i].result.is_error
       /\ ~ProposalToPayerBefore(i)
  /\ \E i \in 1..Len(actions) :
       /\ IsPayment(actions[i])
       /\ actions[i].result.error = "invalid_proposal"

\* C3: every SendMessage that fails validation (unregistered recipient, or
\* a payment without a proposal of its recipient) is in the log as a row
\* with is_error = TRUE: the log holds one error row for every error
\* returned to a sender.
C3_RejectedSendsAreRecorded ==
  /\ \A i \in 1..Len(actions) :
       (/\ IsSendMessage(actions[i])
        /\ \/ actions[i].request.to_agent_id \notin RegisteredAgents
           \/ IsPayment(actions[i]) /\ ~ProposalFromTargetBefore(i))
         => actions[i].result.is_error
  /\ err_returned =
       Cardinality({i \in 1..Len(actions) :
                      IsSendMessage(actions[i]) /\ actions[i].result.is_error})

C3_Witness ==
  /\ \E i \in 1..Len(actions) :
       actions[i].result.error = "to_agent_id_not_found"
  /\ \E i \in 1..Len(actions) :
       actions[i].result.error = "invalid_proposal"

\* C4: a row of the actions table never changes and is never removed,
\* whatever happens afterwards (sends, payments, fetches, the export).
C4_LogImmutable ==
  [][/\ Len(actions') >= Len(actions)
     /\ \A i \in 1..Len(actions) : actions'[i] = actions[i]]_vars

\* Rows were appended by a send, a payment and a fetch, and exported.
C4_Witness ==
  /\ exported # <<>>
  /\ \E i \in 1..Len(actions) :
       IsPayment(actions[i]) /\ ~actions[i].result.is_error
  /\ \E i \in 1..Len(actions) : actions[i].request.name = "FetchMessages"

\* C5: over all polls of an agent, every message that was in the log at the
\* agent's last poll and is addressed to it has been handed to it, and none
\* was handed twice.
C5_ExactlyOnce ==
  \A a \in RegisteredAgents :
    /\ \A i, j \in 1..Len(handed[a]) : i # j => handed[a][i] # handed[a][j]
    /\ \A k \in 1..Len(actions) :
         (/\ actions[k].index <= poll_len[a]
          /\ IsSendMessage(actions[k])
          /\ actions[k].request.to_agent_id = a
          /\ ~actions[k].result.is_error)
           => actions[k].index \in Range(handed[a])

\* An agent got messages in two different polls.
C5_Witness ==
  \E a \in RegisteredAgents :
    \E i, j \in 1..Len(actions) :
      /\ i < j
      /\ actions[i].request.name = "FetchMessages" /\ actions[i].agent_id = a
      /\ actions[j].request.name = "FetchMessages" /\ actions[j].agent_id = a
      /\ \E m \in Range(handed[a]) : m < actions[i].index
      /\ \E m \in Range(handed[a]) :
           actions[i].index < m /\ m < actions[j].index

\* C6: a FetchMessages call with after_index = k returns only messages whose
\* index is greater than k.
C6_FetchAfterCursor ==
  \A i \in 1..Len(last_fetch.rows) :
    last_fetch.rows[i].index > last_fetch.after_index

\* A fetch with a cursor returned a message and left an older one out.
C6_Witness ==
  /\ last_fetch.after_index # NoIndex
  /\ last_fetch.rows # <<>>
  /\ \E k \in 1..Len(actions) :
       /\ IsSendMessage(actions[k])
       /\ actions[k].request.to_agent_id = last_fetch.agent_id
       /\ ~actions[k].result.is_error
       /\ actions[k].index <= last_fetch.after_index

\* C7: rows become visible in index order and no two rows share an index:
\* the row a step adds has an index above every index already visible, so
\* a reader that has seen index N has seen every smaller one.
C7_VisibleInIndexOrder ==
  \A i, j \in 1..Len(actions) : i < j => actions[i].index < actions[j].index

\* Rows of different agents interleave in the log.
C7_Witness ==
  /\ Len(actions) >= 3
  /\ actions[1].agent_id # actions[2].agent_id
  /\ actions[3].agent_id = actions[1].agent_id

\* C8: a fetch returns only rows of the log that are SendMessage rows
\* addressed to the caller with a non-error result, so only sends that
\* passed validation: the recipient is registered and a payment has a
\* proposal of its recipient behind it.
C8_FetchOnlyOwnAcceptedSends ==
  \A i \in 1..Len(last_fetch.rows) :
    \E k \in 1..Len(actions) :
      /\ actions[k] = last_fetch.rows[i]
      /\ IsSendMessage(actions[k])
      /\ actions[k].request.to_agent_id = last_fetch.agent_id
      /\ ~actions[k].result.is_error
      /\ IsPayment(actions[k]) => ProposalFromTargetBefore(k)

\* A fetch returned a message while a rejected send to the caller and a
\* message to somebody else were in the log.
C8_Witness ==
  /\ last_fetch.rows # <<>>
  /\ \E k \in 1..Len(actions) :
       /\ IsSendMessage(actions[k])
       /\ \/ /\ actions[k].request.to_agent_id = last_fetch.agent_id
             /\ actions[k].result.is_error
          \/ /\ actions[k].request.to_agent_id # last_fetch.agent_id
             /\ ~actions[k].result.is_error

\* C9: a stored proposal whose status is accepted or rejected keeps that
\* status in every later step.
C9_TerminalStatusIsFinal ==
  [][\A a \in RegisteredAgents, p \in ProposalIds :
       proposal_storage[a][p].status \in {"accepted", "rejected"}
         => proposal_storage'[a][p].status = proposal_storage[a][p].status]_vars

\* C10: no two order proposals that were sent successfully carry the same
\* OrderProposal.id.
C10_ProposalIdsUnique ==
  \A i, j \in 1..Len(actions) :
    (/\ i < j
     /\ IsProposal(actions[i]) /\ ~actions[i].result.is_error
     /\ IsProposal(actions[j]) /\ ~actions[j].result.is_error)
      => actions[i].request.pid # actions[j].request.pid

\* C11: a SendMessage to an agent id that is not registered has an error
\* result that says the recipient was not found, for a text, an order
\* proposal and a payment alike.
C11_UnknownRecipientFails ==
  \A i \in 1..Len(actions) :
    (/\ IsSendMessage(actions[i])
     /\ actions[i].request.to_agent_id \notin RegisteredAgents)
      => /\ actions[i].result.is_error
         /\ actions[i].result.error = "to_agent_id_not_found"

\* Each of the three variants was sent to an unregistered id.
C11_Witness ==
  \A mtype \in {"text", "order_proposal", "payment"} :
    \E i \in 1..Len(actions) :
      /\ IsSendMessage(actions[i])
      /\ actions[i].request.mtype = mtype
      /\ actions[i].request.to_agent_id = UnknownAgentId
      /\ actions[i].result.is_error

\* C12 as claimed: a business is signaled to shut down only when no
\* customer is running any more.
C12_SignalAfterAllCustomers ==
  [][\A b \in Businesses :
       (~will_shutdown[b] /\ will_shutdown'[b])
         => \A c \in Customers : run_state[c] # "running"]_vars

\* C12 as amended: a business is signaled to shut down only when every
\* customer has finished, or when the run of a customer has failed (then
\* every agent is signaled, whoever is still running).
C12_SignalAfterCustomersOrFailure ==
  [][\A b \in Businesses :
       (~will_shutdown[b] /\ will_shutdown'[b])
         => \/ \A c \in Customers : run_state[c] = "finished"
            \/ \E c \in Customers : run_state[c] = "failed"]_vars

\* The businesses were signaled after customers that ran for different
\* numbers of steps had all finished.
C12_Witness ==
  /\ launcher = "wait_dependent"
  /\ \A b \in Businesses : will_shutdown[b] /\ run_state[b] = "running"
  /\ \A c \in Customers : run_state[c] = "finished"
  /\ \E c, d \in Customers : conversation_step[c] < conversation_step[d]

\* C13: a customer with step budget n begins at most n steps.
C13_AtMostBudgetSteps ==
  max_steps # NoBudget =>
    \A c \in Customers : conversation_step[c] <= max_steps

\* ------------------------------------------------------------------
\* Analytics: what the log says a customer paid and was sold.
IsLoggedPayment(k, c) ==
  /\ ~replayed[k].result.is_error
  /\ replayed[k].action.message.type = "payment"
  /\ replayed[k].action.from_agent_id = c

\* The proposals payment row k pays for: those with the payment's id that
\* the paid business had sent to the payer.
ProposalsPaidBy(k) ==
  {replayed[j].action.message : j \in
     {j \in 1..(k - 1) :
        /\ ~replayed[j].result.is_error
        /\ replayed[j].action.message.type = "order_proposal"
        /\ replayed[j].action.message.id =
             replayed[k].action.message.proposal_message_id
        /\ replayed[j].action.from_agent_id = replayed[k].action.to_agent_id
        /\ replayed[j].action.to_agent_id = replayed[k].action.from_agent_id}}

\* The amount of payment row k (all proposals of one business carry the
\* same total price in the replayed logs).
PaidPrice(k) == (CHOOSE m \in ProposalsPaidBy(k) : TRUE).total_price

RECURSIVE SumPaid(_)
SumPaid(rows) ==
  IF rows = {} THEN 0
  ELSE LET k == CHOOSE k \in rows : TRUE
       IN PaidPrice(k) + SumPaid(rows \ {k})

PaymentsMade(c) ==
  SumPaid({k \in 1..Len(replayed) : IsLoggedPayment(k, c)})

\* C14: for every customer the utility returned by the analytics is
\* 2 x (the sum of the customer's willingness to pay over its requested
\* items) minus the sum of the payments it made when needs_met is true, and
\* minus the sum of the payments it made when needs_met is false; the
\* willingness-to-pay term is counted once.
C14_UtilityIsScoreMinusPayments ==
  \A c \in Customers :
    utility[c] # <<>> =>
      utility[c].utility =
        (IF utility[c].needs_met
         THEN 2 * SumOver(customer_agents[c].menu_features) ELSE 0)
        - PaymentsMade(c)

\* Proposal m of business b meets the needs of customer c.
MeetsNeeds(c, b, m) ==
  /\ DOMAIN customer_agents[c].menu_features \subseteq
       FilterValidProposalItems(b, m).matched_items
  /\ \A a \in customer_agents[c].amenity_features :
       /\ a \in DOMAIN business_agents[b].amenity_features
       /\ business_agents[b].amenity_features[a]

\* C15: needs_met is true for a customer exactly when some proposal it paid
\* for covers, after fuzzy matching against the menu of the business that
\* was paid, every item the customer requested, and that business has every
\* amenity the customer requires.
C15_NeedsMetIffPaidProposalCovers ==
  \A c \in Customers :
    utility[c] # <<>> =>
      (utility[c].needs_met <=>
         \E k \in 1..Len(replayed) :
           /\ IsLoggedPayment(k, c)
           /\ \E m \in ProposalsPaidBy(k) :
                MeetsNeeds(c, replayed[k].action.to_agent_id, m))

\* No two accepted proposals of the replayed log share an id.
ReplayedIdsUnique ==
  \A i, j \in 1..Len(replayed) :
    (/\ i # j
     /\ ~replayed[i].result.is_error /\ ~replayed[j].result.is_error
     /\ replayed[i].action.message.type = "order_proposal"
     /\ replayed[j].action.message.type = "order_proposal")
      => replayed[i].action.message.id # replayed[j].action.message.id

\* ------------------------------------------------------------------
MenuOf(call) == DOMAIN business_agents[call.business_agent_id].menu_features

\* (proposal item, menu item) for every match of a call: the items with the
\* same name on both sides, and the fuzzy matches it reports.
MatchedPairs(call) ==
  LET fm == call.returned.fuzzy_matches
  IN {<<p, p>> : p \in ItemNames(call.proposal) \cap MenuOf(call)}
     \cup {<<fm[i][2], fm[i][3]>> : i \in 1..Len(fm)}

\* C16: for any menu, proposal and threshold, filter_valid_proposal_items
\* returns a one-to-one matching: no menu item is matched to two proposal
\* items and no proposal item to two menu items.
C16_MatchingIsOneToOne ==
  \A c \in Customers : \A k \in 1..Len(filter_calls[c]) :
    LET call == filter_calls[c][k]
        pairs == MatchedPairs(call)
    IN /\ \A x, y \in pairs : (x[1] = y[1]) <=> (x[2] = y[2])
       /\ Cardinality(pairs) =
            Cardinality(ItemNames(call.proposal) \cap MenuOf(call))
            + Len(call.returned.fuzzy_matches)
       /\ \A x \in pairs :
            x[1] \in ItemNames(call.proposal) /\ x[2] \in MenuOf(call)
       /\ call.returned.matched_items = {x[2] : x \in pairs}

\* A call matched an item fuzzily and refused another pair that was within
\* the threshold because one of its two items was taken.
C16_Witness ==
  \E c \in Customers : \E k \in 1..Len(filter_calls[c]) :
    LET call == filter_calls[c][k]
    IN /\ call.returned.fuzzy_matches # <<>>
       /\ \E p \in ItemNames(call.proposal) \ MenuOf(call) :
          \E m \in MenuOf(call) \ ItemNames(call.proposal) :
            /\ LevenshteinDistance(Lower(m), Lower(p)) <= fuzzy_match_distance
            /\ <<p, m>> \notin MatchedPairs(call)

\* ------------------------------------------------------------------
\* The Levenshtein distance of two strings, by its definition.
RECURSIVE EditDistance(_, _)
EditDistance(a, b) ==
  IF a = <<>> THEN Len(b)
  ELSE IF b = <<>> THEN Len(a)
  ELSE IF Head(a) = Head(b) THEN EditDistance(Tail(a), Tail(b))
  ELSE 1 + Min3(EditDistance(Tail(a), b), EditDistance(a, Tail(b)),
                EditDistance(Tail(a), Tail(b)))

\* The distance between the lower-cased names, for every proposed name and
\* every name a menu can hold.
NameDistance ==
  [name \in AllItemNames, m \in {taco, Taco, burrito} |->
     EditDistance(Lower(name), Lower(m))]

\* The accepted proposals of the replayed log that were checked last for
\* their id, with the business that sent them.
LastCheckedProposals ==
  {replayed[k].action : k \in
     {k \in 1..Len(replayed) :
        /\ ~replayed[k].result.is_error
        /\ replayed[k].action.message.type = "order_proposal"
        /\ replayed[k].action.from_agent_id \in DOMAIN business_agents
        /\ \A j \in (k + 1)..Len(replayed) :
             \/ replayed[j].result.is_error
             \/ replayed[j].action.message.type # "order_proposal"
             \/ replayed[j].action.message.id # replayed[k].action.message.id}}

\* The InvalidMenuItem findings recorded for a proposal and one of its items.
MenuItemFindings(action, name) ==
  {f \in Range(invalid_proposals[action.message.id]) :
     /\ f.kind = "InvalidMenuItem"
     /\ f.proposed_menu_item = name
     /\ f.business_agent_id = action.from_agent_id}

\* Every item of a checked proposal that is not on the sender's menu has a
\* finding that names a menu item at the smallest distance (between the
\* lower-cased names) and that distance; burrito_distance is the distance
\* reported for "buritto" against a menu with "burrito".
ClosestItemReported(burrito_distance) ==
  \A action \in LastCheckedProposals :
    LET menu == DOMAIN business_agents[action.from_agent_id].menu_features
    IN \A name \in ItemNames(action.message) \ menu :
         /\ MenuItemFindings(action, name) # {}
         /\ \A f \in MenuItemFindings(action, name) :
              /\ f.closest_menu_item \in menu
              /\ f.closest_menu_item_distance =
                   NameDistance[name, f.closest_menu_item]
              /\ \A m \in menu :
                   f.closest_menu_item_distance <= NameDistance[name, m]
              /\ (name = buritto /\ burrito \in menu) =>
                   /\ f.closest_menu_item = burrito
                   /\ f.closest_menu_item_distance = burrito_distance

CheckedLast(call) ==
  \E action \in LastCheckedProposals :
    /\ action.from_agent_id = call.business_agent_id
    /\ action.message = call.proposal

FindingsFor(call, name) ==
  MenuItemFindings([from_agent_id |-> call.business_agent_id,
                    message |-> call.proposal], name)

\* The (proposal item, menu item) pairs of a call that have no equal name on
\* the other side and are at this distance (between the lower-cased names).
NearMisses(call, distance) ==
  {x \in (ItemNames(call.proposal) \ MenuOf(call))
          \X (MenuOf(call) \ ItemNames(call.proposal)) :
     NameDistance[x[1], x[2]] = distance}

\* C18 as stated: with fuzzy_match_distance = 1, a proposal item at
\* Levenshtein distance 1 from a menu item is treated as a match to that
\* menu item instead of being flagged InvalidMenuItem.
C18_MatchedInsteadOfFlagged ==
  fuzzy_match_distance = 1 =>
    \A c \in Customers : \A k \in 1..Len(filter_calls[c]) :
      LET call == filter_calls[c][k]
      IN \A x \in NearMisses(call, 1) :
           /\ x \in MatchedPairs(call)
           /\ CheckedLast(call) => FindingsFor(call, x[1]) = {}

\* C18, amended: with fuzzy_match_distance = 1, a proposal item at distance 1
\* from a menu item is matched to that menu item by
\* filter_valid_proposal_items unless one of the two was matched to another
\* item at no greater distance, and check_proposal_errors, which does not
\* look at fuzzy_match_distance, flags the item InvalidMenuItem all the same.
C18_FuzzyMatchedAndStillFlagged ==
  fuzzy_match_distance = 1 =>
    \A c \in Customers : \A k \in 1..Len(filter_calls[c]) :
      LET call == filter_calls[c][k]
          fm == call.returned.fuzzy_matches
      IN \A x \in NearMisses(call, 1) :
           /\ \/ x \in MatchedPairs(call)
              \/ \E i \in 1..Len(fm) :
                   /\ fm[i][2] = x[1] \/ fm[i][3] = x[2]
                   /\ fm[i][1] <= 1
           /\ CheckedLast(call) => FindingsFor(call, x[1]) # {}

\* With fuzzy_match_distance = 1 a call matched a proposal item to a menu
\* item at distance 1, and the item is flagged InvalidMenuItem.
C18_Witness ==
  /\ fuzzy_match_distance = 1
  /\ \E c \in Customers : \E k \in 1..Len(filter_calls[c]) :
       LET call == filter_calls[c][k]
       IN \E x \in NearMisses(call, 1) :
            /\ x \in MatchedPairs(call)
            /\ CheckedLast(call)
            /\ FindingsFor(call, x[1]) # {}

\* ------------------------------------------------------------------
\* C19: after a conversion that completed without error, the agents,
\* actions and logs tables of the portable database each hold exactly as
\* many rows as the source table, and every row has the id and the index
\* of its source row.
C19_ConvertedTablesEqualSource ==
  convert_pc = "done" =>
    \A t \in Tables :
      /\ Cardinality(target_db[t]) = Cardinality(source_db[t])
      /\ \A s \in source_db[t] :
           \E r \in target_db[t] : r.id = s.id /\ r.index = s.index
      /\ \A r \in target_db[t] :
           \E s \in source_db[t] : s.id = r.id /\ s.index = r.index

\* A completed conversion of a source with rows in all three tables.
C19_Witness ==
  /\ convert_pc = "done"
  /\ \A t \in Tables : source_db[t] # {} /\ target_db[t] # {}

\* The row at position k of a list in index order: the row with exactly
\* k - 1 rows of smaller index.
RowAt(rows, k) ==
  CHOOSE r \in Range(rows) :
    Cardinality({q \in Range(rows) : q.index < r.index}) = k - 1

Mismatched(source_rows, target_rows) ==
  \/ Len(source_rows) # Len(target_rows)
  \/ \E k \in 1..Len(source_rows) :
       \/ RowAt(source_rows, k).index # RowAt(target_rows, k).index
       \/ RowAt(source_rows, k).id # RowAt(target_rows, k).id

\* C20: _verify_table raises whenever the two row lists differ in length,
\* or some pair of rows at the same position in index order differs in
\* index or in id; it returns normally on no mismatched data.
C20_VerifyRaisesOnMismatch ==
  verify_returned # "none" =>
    (Mismatched(verify_args[1], verify_args[2]) <=> verify_returned # "ok")

\* Verification raised on two lists of equal length and equal indexes
\* whose second rows differ in id only.
C20_Witness ==
  /\ verify_returned = "ID mismatch"
  /\ Len(verify_args[1]) = 2
  /\ Len(verify_args[2]) = 2
  /\ RowAt(verify_args[1], 1) = RowAt(verify_args[2], 1)
  /\ RowAt(verify_args[1], 2).index = RowAt(verify_args[2], 2).index

\* ------------------------------------------------------------------
\* Audit: the proposals the log says were sent to a customer.
SentProposalRows ==
  {k \in 1..Len(audit_rows) :
     /\ ~audit_rows[k].result.is_error
     /\ audit_rows[k].action.message.type = "order_proposal"}

\* The id occurs in a text of the log: the prompt or one of its messages,
\* the response or one of its fields.
OccursInLog(proposal_id, log) ==
  \/ Contains(log.prompt.text, proposal_id)
  \/ \E k \in 1..Len(log.prompt.messages) :
       Contains(log.prompt.messages[k], proposal_id)
  \/ Contains(log.response.text, proposal_id)
  \/ Contains(log.response.key, proposal_id)
  \/ Contains(log.response.value, proposal_id)

\* The id of proposal row k is nowhere in the last log of its recipient.
NotInLastLog(k) ==
  \A j \in 1..Len(llm_logs) :
    (/\ llm_logs[j].agent_id = audit_rows[k].action.to_agent_id
     /\ \A i \in (j + 1)..Len(llm_logs) :
          llm_logs[i].agent_id # llm_logs[j].agent_id)
      => ~OccursInLog(audit_rows[k].action.message.id, llm_logs[j].log)

\* C21: when audit_proposals has run, every proposal that was sent to a
\* customer and whose id occurs nowhere in the prompt or the response of
\* that customer's last LLM log is counted in proposals_missing and has an
\* entry in missing_details.
C21_UnseenProposalsAreMissing ==
  audit_pc = "audited" =>
    LET unseen == {k \in SentProposalRows : NotInLastLog(k)}
    IN /\ audit_results.proposals_missing >= Cardinality(unseen)
       /\ \A k \in unseen :
            \E i \in 1..Len(audit_results.missing_details) :
              audit_results.missing_details[i].proposal_id
                = audit_rows[k].action.message.id

\* No two proposals of the audited log share an id.
AuditIdsUnique ==
  \A i, j \in SentProposalRows :
    i # j => audit_rows[i].action.message.id # audit_rows[j].action.message.id

C23_AtMostOnePaymentPerProposal ==
  \A i, j \in 1..Len(actions) :
    (/\ IsPayment(actions[i]) /\ IsPayment(actions[j])
     /\ ~actions[i].result.is_error /\ ~actions[j].result.is_error
     /\ actions[i].agent_id = actions[j].agent_id
     /\ actions[i].request.pid = actions[j].request.pid)
      => i = j

\* C24: a business honors a payment for a proposal only if the payer is the
\* customer the proposal was addressed to: every confirmation answers an
\* agent to which the business sent a proposal with that id.
C24_OnlyAddresseePaymentHonored ==
  \A b \in Businesses : \A k \in 1..Len(payment_replies[b]) :
    payment_replies[b][k].reply = "payment_confirmation"
      => \E i \in 1..Len(actions) :
           /\ IsProposal(actions[i])
           /\ ~actions[i].result.is_error
           /\ actions[i].agent_id = b
           /\ actions[i].request.pid = payment_replies[b][k].pid
           /\ actions[i].request.to_agent_id = payment_replies[b][k].from

\* C25: the ledger of a business holds a record for a proposal only if a
\* SendMessage carrying the proposal succeeded: every stored id has a
\* successful proposal row of the business in the log.
C25_LedgerOnlyAfterSuccessfulSend ==
  \A b \in Businesses, p \in ProposalIds :
    proposal_storage[b][p].status # "absent"
      => \E i \in 1..Len(actions) :
           /\ IsProposal(actions[i])
           /\ ~actions[i].result.is_error
           /\ actions[i].agent_id = b
           /\ actions[i].request.pid = p

\* C26: a record of a business's ledger is never deleted, and its status
\* changes only in the payment handler of that business: a step that
\* changes the status of a stored record takes it from pending to accepted,
\* appends the id to confirmed_orders and answers the payer.
C26_StatusChangedOnlyByPaymentHandler ==
  [][\A b \in Businesses, p \in ProposalIds :
       proposal_storage[b][p].status # "absent"
         => /\ proposal_storage'[b][p].status # "absent"
            /\ proposal_storage'[b][p].status # proposal_storage[b][p].status
                 => /\ proposal_storage[b][p].status = "pending"
                    /\ proposal_storage'[b][p].status = "accepted"
                    /\ Len(confirmed_orders'[b]) > Len(confirmed_orders[b])
                    /\ confirmed_orders'[b][Len(confirmed_orders'[b])] = p
                    /\ Len(payment_replies'[b]) > Len(payment_replies[b])]_vars

\* C27: every decision of a customer is made after the messages delivered
\* before the step were fetched: when a customer's step executes the
\* decided action, every message sent to the customer before the step was
\* returned to it by an earlier fetch.
C27_DecisionAfterFetch ==
  [][\A c \in Customers :
       (/\ Len(actions') = Len(actions) + 1
        /\ actions'[Len(actions')].agent_id = c)
         => \A i \in 1..Len(actions) :
              (/\ IsSendMessage(actions[i])
               /\ ~actions[i].result.is_error
               /\ actions[i].request.to_agent_id = c)
                => actions[i].index \in seen_message_indexes[c]]_vars

\* C28: a customer sends a Payment only for a proposal id in its storage
\* and to the business stored as its sender: when a step appends a payment
\* of a customer, the customer held a record of the id, received from the
\* payment's recipient by an earlier fetch.
C28_PaysOnlyStoredProposals ==
  [][\A c \in Customers :
       (/\ Len(actions') = Len(actions) + 1
        /\ actions'[Len(actions')].agent_id = c
        /\ IsPayment(actions'[Len(actions')]))
         => LET payment == actions'[Len(actions')].request
                stored == proposal_storage[c][payment.pid]
            IN /\ stored.status # "absent"
               /\ payment.to_agent_id = stored.business_id
               /\ \E i \in 1..Len(actions) :
                    /\ IsProposal(actions[i])
                    /\ actions[i].request.from_agent_id = payment.to_agent_id
                    /\ actions[i].request.to_agent_id = c
                    /\ actions[i].request.pid = payment.pid
                    /\ actions[i].index \in seen_message_indexes[c]]_vars

\* A customer paid a proposal it had stored while another id is unknown to
\* it, and the log holds no payment of the customer for the unknown id.
C28_Witness ==
  \E c \in Customers, p, q \in ProposalIds :
    /\ proposal_storage[c][p].status = "accepted"
    /\ proposal_storage[c][q].status = "absent"
    /\ \E i \in 1..Len(actions) :
         /\ IsPayment(actions[i])
         /\ actions[i].agent_id = c
         /\ actions[i].request.pid = p
         /\ actions[i].request.to_agent_id = proposal_storage[c][p].business_id
    /\ \A i \in 1..Len(actions) :
         (IsPayment(actions[i]) /\ actions[i].agent_id = c)
           => actions[i].request.pid # q

\* C29: every Payment appended to the log before the customers finished is
\* processed by the payment handler of its recipient before that business
\* stops: once a business stopped in a run without failure, every
\* successful payment to it was fetched by it and answered.
C29_PaymentsProcessedBeforeStop ==
  \A b \in Businesses :
    run_state[b] = "finished"
      => \A i \in 1..Len(actions) :
           (/\ IsPayment(actions[i])
            /\ ~actions[i].result.is_error
            /\ actions[i].request.to_agent_id = b)
             => /\ actions[i].index \in seen_message_indexes[b]
                /\ \E k \in 1..Len(payment_replies[b]) :
                     /\ payment_replies[b][k].pid = actions[i].request.pid
                     /\ payment_replies[b][k].from = actions[i].agent_id

\* A step of a business begins: the business appends a fetch to the log.
BusinessStepBegins(b) ==
  /\ Len(actions') = Len(actions) + 1
  /\ actions'[Len(actions')].agent_id = b
  /\ actions'[Len(actions')].request.name = "FetchMessages"

C31_FailedDecisionIsCaught ==
  [][\A c \in Customers :
       (/\ conversation_step'[c] = conversation_step[c] + 1
        /\ decision'[c] = "raises")
         => /\ event_history'[c] =
                 Append(event_history[c], LLMDecisionFailed)
            /\ actions' = actions
            /\ run_state'[c] = "running"
            /\ will_shutdown'[c] = (conversation_step'[c] >= max_steps)]_vars

\* A customer whose decision call raised in its first step has executed
\* an action in its second step.
C31_Witness ==
  \E c \in Customers :
    /\ Len(event_history[c]) = 2
    /\ event_history[c][1] = LLMDecisionFailed
    /\ event_history[c][2] = ActionEvent("check_messages")
    /\ conversation_step[c] = 2

AllDecisionsLogged(c) ==
  Cardinality({k \in 1..Len(llm_logs) : llm_logs[k].agent_id = c})
    = llm_calls[c]

\* C34: for every customer the LLM call log with the highest index is the
\* log of the customer's last decision call: when all its calls are in the
\* logs table, get_last_llm_log_for_customer returns the log of the last.
C34_LastLogIsLastDecision ==
  \A c \in Customers :
    (llm_calls[c] > 0 /\ AllDecisionsLogged(c))
      => GetLastLlmLogForCustomer(llm_logs, c) = <<DecisionLog(llm_calls[c])>>

\* C35: the export at the end of the experiment always passes its
\* verification: convert() never raises.
C35_ExportPassesVerification == convert_pc # "raised"

\* C36: the conversion of a source whose indexes are strictly increasing,
\* gaps included, does not raise, and every exported row has the index of
\* its source row.
C36_ConversionKeepsIndexesWithGaps ==
  /\ convert_pc # "raised"
  /\ convert_pc = "done" =>
       \A t \in Tables : \A s \in source_db[t] :
         \E r \in target_db[t] : r.id = s.id /\ r.index = s.index

\* C37: on the same log the audit reports for every customer the needs_met
\* flag and the utility that the analytics reports.
C37_AuditAgreesWithAnalytics ==
  \A c \in Customers :
    (utility[c] # <<>> /\ audit_utility[c] # <<>>) =>
      /\ audit_utility[c].needs_met = utility[c].needs_met
      /\ audit_utility[c].utility = utility[c].utility

\* The last row replayed is a SendMessage whose result is an error.
ErrorRowReplayed ==
  /\ Len(replayed') = Len(replayed) + 1
  /\ replayed'[Len(replayed')].result.is_error

\* C38: replaying a SendMessage whose result is an error changes nothing
\* in the analytics (messages, orders, payments, invalid proposals) and
\* nothing in what the audit stores (proposals, payments, proposal senders).
C38_ErrorSendsIgnored ==
  [][ErrorRowReplayed =>
       /\ UNCHANGED <<business_messages, customer_orders, customer_payments,
                      invalid_proposals>>
       /\ \A c \in Customers :
            /\ AuditCustomerProposals(replayed', c) =
                 AuditCustomerProposals(replayed, c)
            /\ AuditCustomerPayments(replayed', c) =
                 AuditCustomerPayments(replayed, c)
       /\ \A p \in ProposalIds :
            AuditFindBusinessForProposal(replayed', p) =
              AuditFindBusinessForProposal(replayed, p)]_vars

\* A payment that the server rejected was replayed, and both engines
\* computed the utility of its sender without it.
C38_Witness ==
  /\ \E k \in 1..Len(replayed) :
       /\ replayed[k].result.is_error
       /\ replayed[k].action.from_agent_id = "c1"
       /\ replayed[k].action.message.type = "payment"
  /\ customer_payments["c1"] = <<>>
  /\ utility["c1"] # <<>>
  /\ audit_utility["c1"] # <<>>
  /\ audit_utility["c1"].utility = 0

\* The response is one whose parse into the schema failed.
ParseError(client, response) ==
  IF client = "openai_parse" THEN response = "exception"
  ELSE response = "unparsable"

\* C39: a structured-output call makes at most 3 requests; it returns on
\* the first response that parses and makes no request after it; the error
\* of every failed parse is among the messages of every later request; and
\* the call has raised when 3 requests have failed.
C39_AtMostThreeAttemptsWithFeedback ==
  /\ gen_attempts <= 3
  /\ Len(gen_requests) = gen_attempts
  /\ Len(gen_responses) = gen_attempts
  /\ \A k \in 1..Len(gen_responses) :
       gen_responses[k] = "parsed" =>
         k = Len(gen_responses) /\ gen_pc = "returned"
  /\ gen_pc = "returned" =>
       gen_attempts >= 1 /\ gen_responses[gen_attempts] = "parsed"
  /\ \A j \in 1..Len(gen_requests) : \A k \in (j + 1)..Len(gen_requests) :
       ParseError(gen_client, gen_responses[j]) =>
         Message("error", j) \in Range(gen_requests[k])
  /\ (gen_attempts = 3 /\ gen_responses[3] # "parsed") => gen_pc = "raised"

\* The third request of a call returned after two responses that did not
\* parse; it carried the errors of both.
C39_Witness ==
  /\ gen_pc = "returned"
  /\ gen_client = "anthropic"
  /\ gen_responses = <<"unparsable", "unparsable", "parsed">>
  /\ Message("error", 1) \in Range(gen_requests[3])
  /\ Message("error", 2) \in Range(gen_requests[3])

====
